---- MODULE Spec2Model ----
(***************************************************************************)
(* Model of the OPC package writer and reader (package opc).               *)
(*                                                                         *)
(* Strings are sequences of one-character strings, so that the byte-level  *)
(* functions of the code (upper-casing, prefix tests, sorting, extension   *)
(* and directory extraction) are computed as the code computes them.       *)
(***************************************************************************)
EXTENDS Integers, Sequences, FiniteSets, TLC

(***************************************************************************)
(* Bytes and strings                                                       *)
(***************************************************************************)

\* The printable ASCII characters 0x20..0x7E in byte order ("BQ" stands for
\* the backquote 0x60).
Ascii ==
  << " ", "!", "\"", "#", "$", "%", "&", "'", "(", ")", "*", "+", ",", "-", ".", "/",
     "0", "1", "2", "3", "4", "5", "6", "7", "8", "9", ":", ";", "<", "=", ">", "?",
     "@", "A", "B", "C", "D", "E", "F", "G", "H", "I", "J", "K", "L", "M", "N", "O",
     "P", "Q", "R", "S", "T", "U", "V", "W", "X", "Y", "Z", "[", "\\", "]", "^", "_",
     "BQ", "a", "b", "c", "d", "e", "f", "g", "h", "i", "j", "k", "l", "m", "n", "o",
     "p", "q", "r", "s", "t", "u", "v", "w", "x", "y", "z", "{", "|", "}", "~" >>

\* Every byte value as a character: the printable ones as themselves, the
\* others (control bytes, 0x7F and the bytes of UTF-8 sequences) by number.
CharOf ==
  [ b \in 0..255 |-> IF b >= 32 /\ b <= 126 THEN Ascii[b - 31] ELSE "x" \o ToString(b) ]

Chars == { CharOf[b] : b \in 0..255 }

ByteOf == [ c \in Chars |-> CHOOSE b \in 0..255 : CharOf[b] = c ]

\* The byte value of a character.
Byte(c) == ByteOf[c]

isLower(c) == Byte(c) >= Byte("a") /\ Byte(c) <= Byte("z")

isUpper(c) == Byte(c) >= Byte("A") /\ Byte(c) <= Byte("Z")

\* strings.ToUpper / strings.ToLower on one ASCII byte.
UpperChar(c) == IF isLower(c) THEN CharOf[Byte(c) - 32] ELSE c

LowerChar(c) == IF isUpper(c) THEN CharOf[Byte(c) + 32] ELSE c

ToUpper(s) == [ i \in 1..Len(s) |-> UpperChar(s[i]) ]

ToLower(s) == [ i \in 1..Len(s) |-> LowerChar(s[i]) ]

EqualFold(s, t) == ToUpper(s) = ToUpper(t)

HasPrefix(s, p) == Len(s) >= Len(p) /\ SubSeq(s, 1, Len(p)) = p

HasSuffix(s, p) == Len(s) >= Len(p) /\ SubSeq(s, Len(s) - Len(p) + 1, Len(s)) = p

Contains(s, sub) ==
  \E i \in 1..(Len(s) - Len(sub) + 1) : SubSeq(s, i, i + Len(sub) - 1) = sub

\* strings.TrimSpace restricted to the space character.
RECURSIVE TrimLeft(_)
TrimLeft(s) == IF s # << >> /\ s[1] = " " THEN TrimLeft(Tail(s)) ELSE s

RECURSIVE TrimRight(_)
TrimRight(s) ==
  IF s # << >> /\ s[Len(s)] = " " THEN TrimRight(SubSeq(s, 1, Len(s) - 1)) ELSE s

TrimSpace(s) == TrimRight(TrimLeft(s))

\* The least element of a non-empty set of numbers.
Min(S) == CHOOSE k \in S : \A k2 \in S : k <= k2

\* Index of the last occurrence of c in s, 0 when there is none.
LastIndex(s, c) ==
  IF \E i \in 1..Len(s) : s[i] = c
  THEN CHOOSE i \in 1..Len(s) : s[i] = c /\ \A j \in (i + 1)..Len(s) : s[j] # c
  ELSE 0

\* Byte-wise lexicographic order of Go strings (the order of sort.Strings).
RECURSIVE StrLess(_, _)
StrLess(s, t) ==
  IF t = << >> THEN FALSE
  ELSE IF s = << >> THEN TRUE
  ELSE IF s[1] = t[1] THEN StrLess(Tail(s), Tail(t))
  ELSE Byte(s[1]) < Byte(t[1])

\* path.Ext: the suffix starting at the last dot of the last path element.
Ext(name) ==
  LET from(sl, dt) == IF dt > sl THEN SubSeq(name, dt, Len(name)) ELSE << >>
  IN  from(LastIndex(name, "/"), LastIndex(name, "."))

\* path.Base of a name that does not end in a slash.
Base(name) == SubSeq(name, LastIndex(name, "/") + 1, Len(name))

\* path.Dir of a rooted name without empty or dot segments: the text before
\* the last slash, or "/" when that slash is the leading one.
Dir(name) ==
  LET upTo(sl) == IF sl = 0 THEN << "." >>
                  ELSE IF sl = 1 THEN << "/" >>
                  ELSE SubSeq(name, 1, sl - 1)
  IN  upTo(LastIndex(name, "/"))

\* strings.Split(s, "/").
RECURSIVE SplitSlash(_)
SplitSlash(s) ==
  IF \A i \in 1..Len(s) : s[i] # "/" THEN << s >>
  ELSE LET k == CHOOSE i \in 1..Len(s) : s[i] = "/" /\ \A j \in 1..(i - 1) : s[j] # "/"
       IN  << SubSeq(s, 1, k - 1) >> \o SplitSlash(SubSeq(s, k + 1, Len(s)))

\* strings.Join(elems, "/").
RECURSIVE JoinSlash(_)
JoinSlash(elems) ==
  IF elems = << >> THEN << >>
  ELSE IF Len(elems) = 1 THEN elems[1]
  ELSE elems[1] \o << "/" >> \o JoinSlash(Tail(elems))

(***************************************************************************)
(* Well-known names                                                        *)
(***************************************************************************)

contentTypesName ==
  << "/", "[", "C", "o", "n", "t", "e", "n", "t", "_", "T", "y", "p", "e", "s", "]",
     ".", "x", "m", "l" >>

corePropsDefaultName ==
  << "/", "p", "r", "o", "p", "s", "/", "c", "o", "r", "e", ".", "x", "m", "l" >>

packageRelName == << "/", "_", "r", "e", "l", "s", "/", ".", "r", "e", "l", "s" >>

\* The relationship type and the two media types are long constants of which
\* only the identity matters; they are abbreviated.
corePropsRel == << "c", "o", "r", "e" >>

corePropsContentType == << "c", "p", "/", "x" >>

relationshipContentType == << "r", "l", "/", "x" >>

textXML == << "t", "e", "x", "t", "/", "x", "m", "l" >>

(***************************************************************************)
(* Part names: character classes, normalization and validation             *)
(***************************************************************************)

ishex(c) ==
  \/ Byte(c) >= Byte("0") /\ Byte(c) <= Byte("9")
  \/ Byte(c) >= Byte("a") /\ Byte(c) <= Byte("f")
  \/ Byte(c) >= Byte("A") /\ Byte(c) <= Byte("F")

unhex(c) ==
  IF Byte(c) >= Byte("0") /\ Byte(c) <= Byte("9") THEN Byte(c) - Byte("0")
  ELSE IF Byte(c) >= Byte("a") /\ Byte(c) <= Byte("f") THEN Byte(c) - Byte("a") + 10
  ELSE IF Byte(c) >= Byte("A") /\ Byte(c) <= Byte("F") THEN Byte(c) - Byte("A") + 10
  ELSE 0

isAlpha(c) == isLower(c) \/ isUpper(c)

isDigit(c) == Byte(c) >= Byte("0") /\ Byte(c) <= Byte("9")

isUnreserved(c) == isAlpha(c) \/ isDigit(c) \/ c \in { "-", ".", "_", "~" }

isReserved(c) ==
  c \in { "/", ":", "@", "!", "$", "&", "'", "(", ")", "*", "+", ",", ";", "=" }

shouldEscape(c) == ~isUnreserved(c) /\ ~isReserved(c)

\* unpct: the byte a %HH sequence encodes, as a character.
unpct(c1, c2) == CharOf[(unhex(c1) * 16 + unhex(c2)) % 256]

upperhex ==
  << "0", "1", "2", "3", "4", "5", "6", "7", "8", "9", "A", "B", "C", "D", "E", "F" >>

\* split(s, '#'): the text before the first separator.
split(s, sep) ==
  IF \E i \in 1..Len(s) : s[i] = sep
  THEN LET k == CHOOSE i \in 1..Len(s) : s[i] = sep /\ \A j \in 1..(i - 1) : s[j] # sep
       IN  SubSeq(s, 1, k - 1)
  ELSE s

\* strings.NewReplacer("\\", "/", "//", "/").Replace: one left-to-right pass,
\* matches do not overlap and replaced text is not scanned again.
RECURSIVE Replacer(_)
Replacer(s) ==
  IF s = << >> THEN << >>
  ELSE IF s[1] = "\\" THEN << "/" >> \o Replacer(Tail(s))
  ELSE IF Len(s) >= 2 /\ s[1] = "/" /\ s[2] = "/"
       THEN << "/" >> \o Replacer(SubSeq(s, 3, Len(s)))
  ELSE << s[1] >> \o Replacer(Tail(s))

\* A %HH sequence starts at position i of s (two more bytes, both hex digits).
validPct(s, i) == i + 2 <= Len(s) /\ ishex(s[i + 1]) /\ ishex(s[i + 2])

\* unescape: decode every %HH whose byte is neither '%' nor reserved.
RECURSIVE unescapeFrom(_, _)
unescapeFrom(s, i) ==
  IF i > Len(s) THEN << >>
  ELSE IF s[i] = "%" /\ validPct(s, i)
          /\ unpct(s[i + 1], s[i + 2]) # "%" /\ ~isReserved(unpct(s[i + 1], s[i + 2]))
       THEN << unpct(s[i + 1], s[i + 2]) >> \o unescapeFrom(s, i + 3)
  ELSE << s[i] >> \o unescapeFrom(s, i + 1)

unescape(s) == unescapeFrom(s, 1)

\* The value NormalizePartName has when the code panics (index out of range).
PANIC == << "PANIC" >>

\* Number of bytes escape counts as needing two more bytes.
escapeCount(s) ==
  Cardinality({ i \in 1..Len(s) :
                  IF s[i] = "%" THEN ~validPct(s, i) ELSE shouldEscape(s[i]) })

\* The second loop of escape: s is copied into the buffer t (0-based index j,
\* kept here as the 1-based position j + 1); a write past the end panics.
\* A valid %HH writes t[j], t[j+1] and t[j+3] and advances j by 3, and the
\* loop then goes on with the next byte of s.
RECURSIVE escapeLoop(_, _, _, _)
escapeLoop(s, i, t, j) ==
  IF i > Len(s) THEN t
  ELSE IF s[i] = "%" /\ ~validPct(s, i)
       THEN IF j + 2 > Len(t) THEN PANIC
            ELSE escapeLoop(s, i + 1,
                   [ t EXCEPT ![j] = "%", ![j + 1] = "2", ![j + 2] = "5" ], j + 3)
  ELSE IF s[i] = "%"
       THEN IF j + 3 > Len(t) THEN PANIC
            ELSE escapeLoop(s, i + 1,
                   [ t EXCEPT ![j] = "%", ![j + 1] = s[i + 1], ![j + 3] = s[i + 2] ], j + 3)
  ELSE IF shouldEscape(s[i])
       THEN IF j + 2 > Len(t) THEN PANIC
            ELSE escapeLoop(s, i + 1,
                   [ t EXCEPT ![j] = "%",
                              ![j + 1] = upperhex[(Byte(s[i]) \div 16) + 1],
                              ![j + 2] = upperhex[(Byte(s[i]) % 16) + 1] ], j + 3)
  ELSE IF j > Len(t) THEN PANIC
       ELSE escapeLoop(s, i + 1, [ t EXCEPT ![j] = s[i] ], j + 1)

escape(s) ==
  LET escaped(hexCount) ==
        IF hexCount = 0 THEN s
        ELSE escapeLoop(s, 1, [ k \in 1..(Len(s) + 2 * hexCount) |-> CharOf[0] ], 1)
  IN  escaped(escapeCount(s))

cleanSegments(s) ==
  LET rooted(joined) ==
        << "/" >> \o (IF HasPrefix(joined, << "/" >>) THEN Tail(joined) ELSE joined)
      closed(dst, lst) ==
        rooted(JoinSlash(IF lst = << "." >> \/ lst = << ".", "." >>
                         THEN Append(dst, << >>) ELSE dst))
      cleaned(src) ==
        closed(SelectSeq(src, LAMBDA e : e # << "." >> /\ e # << ".", "." >>), src[Len(src)])
  IN  cleaned(SplitSlash(s))

TrimSuffixSlash(s) == IF HasSuffix(s, << "/" >>) THEN SubSeq(s, 1, Len(s) - 1) ELSE s

NormalizePartName(name0) ==
  LET cleaned(e) == IF e = PANIC THEN PANIC ELSE TrimSuffixSlash(cleanSegments(e))
      normalized(name) ==
        IF name \in { << >>, << "/" >>, << "\\" >>, << "." >> } THEN << >>
        ELSE cleaned(escape(unescape(Replacer(split(name, "#")))))
  IN  normalized(TrimSpace(name0))

\* utf8.RuneError.
RuneError == 65533

\* utf8.DecodeRuneInString(s[i:]): the rune encoded at position i of s and
\* the number of bytes of its encoding; RuneError and 1 when the bytes at i
\* are no well-formed UTF-8 encoding.
DecodeRune(s, i) ==
  LET cont(k) == k <= Len(s) /\ Byte(s[k]) >= 128 /\ Byte(s[k]) <= 191
      second(lo, hi) == i + 1 <= Len(s) /\ Byte(s[i + 1]) >= lo /\ Byte(s[i + 1]) <= hi
      low(k) == Byte(s[k]) - 128
      decoded(b0) ==
        IF b0 < 128 THEN [ r |-> b0, wid |-> 1 ]
        ELSE IF b0 >= 194 /\ b0 <= 223 /\ cont(i + 1)
             THEN [ r |-> (b0 - 192) * 64 + low(i + 1), wid |-> 2 ]
        ELSE IF /\ b0 >= 224 /\ b0 <= 239
                /\ second(IF b0 = 224 THEN 160 ELSE 128, IF b0 = 237 THEN 159 ELSE 191)
                /\ cont(i + 2)
             THEN [ r |-> (b0 - 224) * 4096 + low(i + 1) * 64 + low(i + 2), wid |-> 3 ]
        ELSE IF /\ b0 >= 240 /\ b0 <= 244
                /\ second(IF b0 = 240 THEN 144 ELSE 128, IF b0 = 244 THEN 143 ELSE 191)
                /\ cont(i + 2) /\ cont(i + 3)
             THEN [ r |-> (b0 - 240) * 262144 + low(i + 1) * 4096 + low(i + 2) * 64
                            + low(i + 3),
                    wid |-> 4 ]
        ELSE [ r |-> RuneError, wid |-> 1 ]
  IN  decoded(Byte(s[i]))

\* isUcsChar: the rune is in one of the ucschar ranges of RFC 3987
\* (0xA0-0xD7FF, 0xF900-0xFDCF, 0xFDF0-0xFFEF, 0xN0000-0xNFFFD for N in 1..13,
\* 0xE1000-0xEFFFD).
isUcsChar(r) ==
  \/ 160 <= r /\ r <= 55295
  \/ 63744 <= r /\ r <= 64975
  \/ 65008 <= r /\ r <= 65519
  \/ \E n \in 1..13 : n * 65536 <= r /\ r <= n * 65536 + 65533
  \/ 921600 <= r /\ r <= 983037

\* validEncoded, from position i on: a %HH of an unreserved byte is refused;
\* a byte that needs escaping is accepted when the rune decoded there is a
\* ucschar, and the loop then moves on by the width of the rune and one more.
RECURSIVE validEncodedFrom(_, _)
validEncodedFrom(s, i) ==
  IF i > Len(s) THEN TRUE
  ELSE IF s[i] = "%"
       THEN IF i + 2 <= Len(s) /\ isUnreserved(unpct(s[i + 1], s[i + 2])) THEN FALSE
            ELSE validEncodedFrom(s, i + 1)
  ELSE IF shouldEscape(s[i])
       THEN LET moved(d) == IF ~isUcsChar(d.r) THEN FALSE
                            ELSE validEncodedFrom(s, i + d.wid + 1)
            IN  moved(DecodeRune(s, i))
  ELSE validEncodedFrom(s, i + 1)

validEncoded(s) == validEncodedFrom(s, 1)

\* validateChars without the trailing-dot test.
validateCharsNoDot(name) ==
  IF HasSuffix(name, << "/" >>) THEN 105
  ELSE IF Contains(name, << "/", "/" >>) THEN 103
  ELSE 0

validateChars(name) ==
  IF HasSuffix(name, << "/" >>) THEN 105
  ELSE IF HasSuffix(name, << "." >>) THEN 109
  ELSE IF Contains(name, << "/", "/" >>) THEN 103
  ELSE 0

validateSegments(name) ==
  LET checked(u) ==
        IF Contains(name, << "/", ".", "/" >>) \/ Contains(name, << "/", ".", ".", "/" >>)
        THEN 110
        ELSE IF Contains(u, << "%", "5", "C" >>) \/ Contains(u, << "%", "2", "F" >>) THEN 107
        ELSE IF \/ Contains(u, << "%", "2", "D" >>) \/ Contains(u, << "%", "2", "E" >>)
                \/ Contains(u, << "%", "5", "F" >>) \/ Contains(u, << "%", "7", "E" >>)
             THEN 108
        ELSE 0
  IN  checked(ToUpper(name))

\* validatePartName: 0 when the name is accepted, else the error code.
validatePartName(name) ==
  IF EqualFold(name, contentTypesName) THEN 0
  ELSE IF TrimSpace(name) = << >> THEN 101
  ELSE IF name[1] # "/" THEN 104
  ELSE LET checked(charsErr, segmentsErr) ==
             IF charsErr # 0 THEN charsErr
             ELSE IF segmentsErr # 0 THEN segmentsErr
             ELSE IF ~validEncoded(name) THEN 106
             ELSE 0
       IN  checked(validateChars(name), validateSegments(name))

(***************************************************************************)
(* Relationships                                                           *)
(***************************************************************************)

ModeInternal == "Internal"

ModeExternal == "External"

\* A Relationship value; every string field is a character sequence.
Rel(id, type, target, mode) ==
  [ ID |-> id, Type |-> type, TargetURI |-> target, TargetMode |-> mode ]

\* isRelationshipURI: "/_rels/.rels", or ".../_rels/<name>.rels" with a
\* non-empty <name>, compared in upper case.
isRelationshipURI(uri) ==
  LET inRels(segments) ==
        /\ Len(segments) >= 3
        /\ Len(segments[Len(segments)]) > 5
        /\ segments[Len(segments) - 1] = << "_", "R", "E", "L", "S" >>
      isRels(up) ==
        /\ HasSuffix(up, << ".", "R", "E", "L", "S" >>)
        /\ \/ up = ToUpper(packageRelName)
           \/ inRels(SplitSlash(up))
  IN  isRels(ToUpper(uri))

\* url.Parse on a reference without query or fragment: the scheme is the text
\* before the first ':' when it starts with a letter and holds only letters,
\* digits, '+', '-' and '.'.
schemeEnd(s) ==
  IF \E i \in 1..Len(s) : s[i] = ":"
  THEN LET scheme(k) ==
             IF k > 1 /\ isAlpha(s[1])
                /\ \A j \in 1..(k - 1) :
                     isAlpha(s[j]) \/ isDigit(s[j]) \/ s[j] \in { "+", "-", "." }
             THEN k ELSE 0
       IN  scheme(CHOOSE i \in 1..Len(s) : s[i] = ":" /\ \A j \in 1..(i - 1) : s[j] # ":")
  ELSE 0

\* url.Parse fails on a control byte, on a leading ':' (missing scheme), on a
\* ':' in the first segment of a reference without scheme, and on a '%' that
\* does not start a %HH sequence.
urlParseFails(s) ==
  \/ \E i \in 1..Len(s) : Byte(s[i]) < 32 \/ Byte(s[i]) = 127
  \/ s # << >> /\ s[1] = ":"
  \/ /\ schemeEnd(s) = 0
     /\ \E i \in 1..Len(s) : s[i] = ":" /\ \A j \in 1..(i - 1) : s[j] # "/"
  \/ \E i \in 1..Len(s) : s[i] = "%" /\ ~validPct(s, i)

\* URL.IsAbs: the reference has a scheme.
IsAbs(s) == schemeEnd(s) > 0

\* removal of "." and ".." segments as URL.ResolveReference does it.
RECURSIVE dotSegments(_, _)
dotSegments(segs, stack) ==
  IF segs = << >> THEN stack
  ELSE IF segs[1] = << "." >> THEN dotSegments(Tail(segs), stack)
  ELSE IF segs[1] = << ".", "." >>
       THEN dotSegments(Tail(segs),
                        IF Len(stack) > 1 THEN SubSeq(stack, 1, Len(stack) - 1) ELSE stack)
  ELSE dotSegments(Tail(segs), Append(stack, segs[1]))

\* URL.ResolveReference(ref).String() for a rooted source path and a
\* reference without scheme: an empty reference is the source itself, a rooted
\* one replaces the path, any other is merged with the source's directory.
ResolveReference(source, ref) ==
  LET rooted(joined) == IF HasPrefix(joined, << "/" >>) THEN joined ELSE << "/" >> \o joined
      closed(kept, lst) ==
        rooted(JoinSlash(IF lst = << "." >> \/ lst = << ".", "." >>
                         THEN Append(kept, << >>) ELSE kept))
      resolved(segs) == closed(dotSegments(segs, << >>), segs[Len(segs)])
  IN  resolved(SplitSlash(IF ref = << >> THEN source
                          ELSE IF ref[1] = "/" THEN ref
                          ELSE SubSeq(source, 1, LastIndex(source, "/")) \o ref))

\* validateRelationshipTarget: 0 or the error code.
validateRelationshipTarget(sourceURI, targetURI, targetMode) ==
  LET checked(uri, source, abs) ==
        IF urlParseFails(uri) \/ uri = << >> THEN 128
        ELSE IF targetMode = ModeInternal /\ abs THEN 129
        ELSE IF /\ targetMode # ModeExternal
                /\ ~abs
                /\ \/ urlParseFails(source)
                   \/ source = << >>
                   \/ isRelationshipURI(ResolveReference(source, uri))
             THEN 125
        ELSE 0
  IN  checked(TrimSpace(targetURI), TrimSpace(sourceURI), IsAbs(TrimSpace(targetURI)))

\* A variant of Relationship.validate that does not look at the Type.
validateRelationshipSkippingType(r, sourceURI) ==
  IF TrimSpace(r.ID) = << >> THEN 126
  ELSE validateRelationshipTarget(sourceURI, r.TargetURI, r.TargetMode)

\* Relationship.validate: 0 or the error code.
validateRelationship(r, sourceURI) ==
  IF TrimSpace(r.ID) = << >> THEN 126
  ELSE IF TrimSpace(r.Type) = << >> THEN 127
  ELSE validateRelationshipTarget(sourceURI, r.TargetURI, r.TargetMode)

\* validateRelationships: the relationships are validated in order; an ID
\* already seen among the earlier ones is error 126.
RECURSIVE validateRelationshipsFrom(_, _, _)
validateRelationshipsFrom(sourceURI, rs, i) ==
  IF i > Len(rs) THEN 0
  ELSE LET checked(v) ==
             IF v # 0 THEN v
             ELSE IF \E j \in 1..(i - 1) : rs[j].ID = rs[i].ID THEN 126
             ELSE validateRelationshipsFrom(sourceURI, rs, i + 1)
       IN  checked(validateRelationship(rs[i], sourceURI))

\* A variant of validateRelationships that validates each relationship and
\* does not compare the IDs.
validateRelationshipsEach(sourceURI, rs) ==
  IF \E k \in 1..Len(rs) : validateRelationship(rs[k], sourceURI) # 0
  THEN validateRelationship(
         rs[Min({ k \in 1..Len(rs) : validateRelationship(rs[k], sourceURI) # 0 })], sourceURI)
  ELSE 0

validateRelationships(sourceURI, rs) == validateRelationshipsFrom(sourceURI, rs, 1)

\* Relationship.toXML: the Relationship element written for r.
toXML(r) ==
  [ Id |-> r.ID,
    Type |-> r.Type,
    Target |-> IF /\ r.TargetMode = ModeInternal
                  /\ ~HasPrefix(r.TargetURI, << "/" >>)
                  /\ ~HasPrefix(r.TargetURI, << "\\" >>)
                  /\ ~HasPrefix(r.TargetURI, << "." >>)
               THEN << "/" >> \o r.TargetURI
               ELSE r.TargetURI,
    TargetMode |-> IF r.TargetMode = ModeExternal THEN "External" ELSE "" ]

\* A variant of encodeRelationships that leaves out the last relationship.
encodeRelationshipsButLast(rs) == [ i \in 1..(Len(rs) - 1) |-> toXML(rs[i]) ]

\* encodeRelationships: the document written to a relationships part.
encodeRelationships(rs) == [ i \in 1..Len(rs) |-> toXML(rs[i]) ]

(***************************************************************************)
(* Content types and the package                                           *)
(***************************************************************************)

EmptyMap == [ k \in {} |-> << >> ]

\* map[k] = v on a Go map.
MapSet(m, k, v) == [ x \in (DOMAIN m) \cup { k } |-> IF x = k THEN v ELSE m[x] ]

isTokenChar(c) ==
  /\ Byte(c) > 32 /\ Byte(c) < 127
  /\ c \notin { "(", ")", "<", ">", "@", ",", ";", ":", "\\", "\"", "/", "[", "]", "?", "=" }

\* mime.ParseMediaType succeeds on a media type without parameters and the
\* type it returns holds a slash: token "/" token, spaces around it ignored.
mediaTypeOK(ct) ==
  LET tokens(t, k) ==
        /\ k > 1 /\ k < Len(t)
        /\ \A i \in 1..Len(t) : i # k => isTokenChar(t[i])
      parsed(t) == tokens(t, LastIndex(t, "/"))
  IN  parsed(TrimSpace(ct))

\* mime.FormatMediaType(mime.ParseMediaType(ct)) for such a media type.
FormatMediaType(ct) == ToLower(TrimSpace(ct))

\* Part.validateContentType: 0 or the error code.
validateContentType(ct) ==
  IF TrimSpace(ct) = << >> THEN 102
  ELSE IF ct[1] = " " \/ HasSuffix(ct, << " " >>) THEN 114
  ELSE IF ~mediaTypeOK(ct) THEN 113
  ELSE 0

\* Part.validate: 0 or the error code.
validatePart(part) ==
  LET checked(nameErr, typeErr) ==
        IF nameErr # 0 THEN nameErr
        ELSE IF typeErr # 0 THEN typeErr
        ELSE validateRelationships(part.Name, part.Relationships)
  IN  checked(validatePartName(part.Name), validateContentType(part.ContentType))

\* contentTypes.add: the dictionary after adding partName with contentType.
contentTypesAdd(c, partName, contentType0) ==
  LET added(contentType, ext) ==
        IF Len(ext) = 0
        THEN [ c EXCEPT !.overrides = MapSet(c.overrides, partName, contentType) ]
        ELSE IF Tail(ext) \in DOMAIN c.defaults
             THEN IF c.defaults[Tail(ext)] # contentType
                  THEN [ c EXCEPT !.overrides = MapSet(c.overrides, partName, contentType) ]
                  ELSE c
             ELSE [ c EXCEPT !.defaults = MapSet(c.defaults, Tail(ext), contentType) ]
  IN  added(FormatMediaType(contentType0), ToLower(Ext(partName)))

\* contentTypes.findType fails with error 208.
findTypeFails(c, name) ==
  LET missing(ext) ==
        /\ ToUpper(name) \notin DOMAIN c.overrides
        /\ \/ ext = << >>
           \/ ToLower(Tail(ext)) \notin DOMAIN c.defaults
  IN  missing(Ext(name))

\* contentTypes.findType: the type found (overrides first, then defaults).
findType(c, name) ==
  LET found(key) ==
        IF key \in DOMAIN c.overrides THEN c.overrides[key]
        ELSE c.defaults[ToLower(Tail(Ext(name)))]
  IN  found(ToUpper(name))

\* contentTypes.toXML: the Default and Override elements of the document.
contentTypesToXML(c) == [ Default |-> c.defaults, Override |-> c.overrides ]

newPackage == [ parts |-> {}, contentTypes |-> [ defaults |-> EmptyMap, overrides |-> EmptyMap ] ]

checkStringsPrefixCollision(s1, s2) ==
  HasPrefix(s1, s2) /\ Len(s1) > Len(s2) /\ s1[Len(s2) + 1] = "/"

\* pkg.checkPrefixCollision: uri is sorted in among the keys of the package
\* and compared with the key right before it and the key right after it.
checkPrefixCollision(parts, uri) ==
  LET neighbours(before, after) ==
        \/ /\ before # {}
           /\ checkStringsPrefixCollision(uri,
                CHOOSE k \in before : \A k2 \in before : k2 = k \/ StrLess(k2, k))
        \/ /\ after # {}
           /\ checkStringsPrefixCollision(
                CHOOSE k \in after : \A k2 \in after : k2 = k \/ StrLess(k, k2), uri)
  IN  neighbours({ k \in parts : StrLess(k, uri) }, { k \in parts : StrLess(uri, k) })

\* pkg.add: the error code (0 when the part is added) and the package after.
pkgAdd(p, part) ==
  LET added(v, name) ==
        IF v # 0 THEN [ err |-> v, p |-> p ]
        ELSE IF name \in p.parts THEN [ err |-> 112, p |-> p ]
        ELSE IF checkPrefixCollision(p.parts, name) THEN [ err |-> 111, p |-> p ]
        ELSE [ err |-> 0,
               p |-> [ parts |-> p.parts \cup { name },
                       contentTypes |-> contentTypesAdd(p.contentTypes, name, part.ContentType) ] ]
  IN  added(validatePart(part), ToUpper(NormalizePartName(part.Name)))

\* pkg.deletePart.
deletePart(p, uri) == [ p EXCEPT !.parts = @ \ { ToUpper(uri) } ]

(***************************************************************************)
(* Writer                                                                  *)
(***************************************************************************)

\* A nil pointer, and a pointer to a value.
Nil == << >>

Ptr(x) == << x >>

CompressionNone == -1

CompressionNormal == 0

CompressionSuperFast == 3

\* A Part value.
Part(name, contentType, rels) ==
  [ Name |-> name, ContentType |-> contentType, Relationships |-> rels ]

\* The zero CoreProperties value; Title stands for the fifteen metadata fields.
NoProperties == [ PartName |-> << >>, RelationshipID |-> << >>, Title |-> << >> ]

\* Errors without an OPC code: "opc: ...: cannot be created" of addToPackage,
\* the error zip.Writer.Close returns when it is closed a second time, and
\* "opc: ...: cannot be decoded" of the decoders.
ErrCannotBeCreated == 1

ErrClosedTwice == 2

ErrCannotBeDecoded == 3

\* NewWriter: zip is the sequence of entries written to the archive so far,
\* closed tells whether the archive encoder was closed.
NewWriter ==
  [ Properties |-> NoProperties, Relationships |-> << >>, p |-> newPackage,
    zip |-> << >>, closed |-> FALSE, last |-> Nil ]

\* zipName: the part name without its leading slash.
zipName(partName) == Tail(partName)

\* setCompressor registers a compressor that fails for an option outside the
\* enumeration; zip.Writer.CreateHeader then fails before adding the entry.
createHeaderFails(compression) ==
  compression < CompressionNone \/ compression > CompressionSuperFast

\* Relationship.ensureID over a list: the k-th relationship with an empty ID
\* gets gen[k], the k-th outcome of the random source.
RECURSIVE ensureIDsFrom(_, _, _)
ensureIDsFrom(rs, gen, k) ==
  IF rs = << >> THEN << >>
  ELSE IF rs[1].ID = << >>
       THEN << [ rs[1] EXCEPT !.ID = gen[k] ] >> \o ensureIDsFrom(Tail(rs), gen, k + 1)
  ELSE << rs[1] >> \o ensureIDsFrom(Tail(rs), gen, k)

ensureIDs(rs, gen) == ensureIDsFrom(rs, gen, 1)

\* A variant of addToPackage that puts the new entry in front of the archive.
addToPackageFirst(w, part, compression, kind, body) ==
  LET created(r) ==
        IF r.err # 0 THEN [ err |-> r.err, w |-> w ]
        ELSE IF createHeaderFails(compression)
             THEN [ err |-> ErrCannotBeCreated,
                    w |-> [ w EXCEPT !.p = deletePart(r.p, part.Name) ] ]
        ELSE [ err |-> 0,
               w |-> [ w EXCEPT !.p = r.p,
                                !.zip = << [ name |-> zipName(part.Name),
                                             kind |-> kind,
                                             body |-> body ] >> \o @ ] ]
  IN  created(pkgAdd(w.p, part))

\* A variant of addToPackage that writes the entry also when the name is
\* in the package already.
addToPackageAgain(w, part, compression, kind, body) ==
  LET created(r) ==
        IF r.err # 0 /\ r.err # 112 THEN [ err |-> r.err, w |-> w ]
        ELSE IF createHeaderFails(compression)
             THEN [ err |-> ErrCannotBeCreated,
                    w |-> [ w EXCEPT !.p = deletePart(r.p, part.Name) ] ]
        ELSE [ err |-> 0,
               w |-> [ w EXCEPT !.p = r.p,
                                !.zip = Append(@, [ name |-> zipName(part.Name),
                                                    kind |-> kind,
                                                    body |-> body ]) ] ]
  IN  created(pkgAdd(w.p, part))

\* Writer.addToPackage; kind and body describe the entry the caller of
\* addToPackage then writes through the returned io.Writer.
addToPackage(w, part, compression, kind, body) ==
  LET created(r) ==
        IF r.err # 0 THEN [ err |-> r.err, w |-> w ]
        ELSE IF createHeaderFails(compression)
             THEN [ err |-> ErrCannotBeCreated,
                    w |-> [ w EXCEPT !.p = deletePart(r.p, part.Name) ] ]
        ELSE [ err |-> 0,
               w |-> [ w EXCEPT !.p = r.p,
                                !.zip = Append(@, [ name |-> zipName(part.Name),
                                                    kind |-> kind,
                                                    body |-> body ]) ] ]
  IN  created(pkgAdd(w.p, part))

\* The name of the relationships part of a part.
relationshipsPartName(name) ==
  LET relName(dirName) ==
        (IF dirName # << >> THEN << "/" >> \o dirName ELSE << >>)
          \o << "/", "_", "r", "e", "l", "s", "/" >> \o Base(name)
          \o << ".", "r", "e", "l", "s" >>
  IN  relName(Tail(Dir(name)))

\* Writer.createLastPartRelationships.
createLastPartRelationships(w, gen) ==
  IF w.last = Nil \/ Len(w.last[1].Relationships) = 0 THEN [ err |-> 0, w |-> w ]
  ELSE LET written(rs, w1, v) ==
             IF v # 0 THEN [ err |-> v, w |-> w1 ]
             ELSE addToPackage(w1,
                    Part(relationshipsPartName(w.last[1].Name), relationshipContentType, << >>),
                    CompressionNormal, "rels", encodeRelationships(rs))
           ensured(rs) ==
             written(rs, [ w EXCEPT !.last = Ptr([ w.last[1] EXCEPT !.Relationships = rs ]) ],
                     validateRelationships(w.last[1].Name, rs))
       IN  ensured(ensureIDs(w.last[1].Relationships, gen))

\* A variant of Writer.add that opens the entry of the new part before it
\* writes the relationships of the last one.
addBodyFirst(w, part, compression, gen) ==
  LET advanced(r1) ==
        IF r1.err # 0 THEN r1 ELSE [ err |-> 0, w |-> [ r1.w EXCEPT !.last = Ptr(part) ] ]
      added(r2) ==
        IF r2.err # 0 THEN r2
        ELSE advanced(createLastPartRelationships(r2.w, gen))
  IN  added(addToPackage(w, part, compression, "part", << >>))

\* Writer.add.
add(w, part, compression, gen) ==
  LET added(r2) ==
        IF r2.err = 0 THEN [ err |-> 0, w |-> [ r2.w EXCEPT !.last = Ptr(part) ] ] ELSE r2
      advanced(r1) ==
        IF r1.err # 0 THEN r1 ELSE added(addToPackage(r1.w, part, compression, "part", << >>))
  IN  advanced(createLastPartRelationships(w, gen))

\* Writer.createCoreProperties.
createCoreProperties(w) ==
  IF w.Properties = NoProperties THEN [ err |-> 0, w |-> w ]
  ELSE LET partName == IF w.Properties.PartName = << >> THEN corePropsDefaultName
                       ELSE w.Properties.PartName
           created(r) ==
             IF r.err # 0 THEN r
             ELSE [ err |-> 0,
                    w |-> [ r.w EXCEPT !.Relationships =
                              Append(@, Rel(<< >>, corePropsRel, partName, ModeInternal)) ] ]
       IN  created(addToPackage(w, Part(partName, corePropsContentType, << >>),
                                CompressionNormal, "props", << w.Properties.Title >>))

\* Writer.createOwnRelationships.
createOwnRelationships(w, gen) ==
  IF Len(w.Relationships) = 0 THEN [ err |-> 0, w |-> w ]
  ELSE LET written(rs, w1, v) ==
             IF v # 0 THEN [ err |-> v, w |-> w1 ]
             ELSE addToPackage(w1, Part(packageRelName, relationshipContentType, << >>),
                               CompressionNormal, "rels", encodeRelationships(rs))
           ensured(rs) ==
             written(rs, [ w EXCEPT !.Relationships = rs ], validateRelationships(<< "/" >>, rs))
       IN  ensured(ensureIDs(w.Relationships, gen))

\* Writer.createContentTypes: the stream is added to the package as a part of
\* type text/xml and the dictionary is encoded after that.
createContentTypes(w) ==
  LET encoded(r) ==
        IF r.err # 0 THEN r
        ELSE [ err |-> 0,
               w |-> [ r.w EXCEPT !.zip[Len(r.w.zip)].body =
                         << contentTypesToXML(r.w.p.contentTypes) >> ] ]
  IN  encoded(addToPackage(w, Part(contentTypesName, textXML, << >>), CompressionNormal,
                           "types", << >>))

\* zip.Writer.Close: fails when the encoder is closed already.
zipClose(w) ==
  IF w.closed THEN [ err |-> ErrClosedTwice, w |-> w ]
  ELSE [ err |-> 0, w |-> [ w EXCEPT !.closed = TRUE ] ]

\* A variant of Close that writes the relationships of the package before
\* the core properties.
CloseRelationshipsFirst(w, genLast, genOwn) ==
  LET aborted(r) == [ err |-> r.err, w |-> zipClose(r.w).w ]
      step4(r4) == IF r4.err # 0 THEN aborted(r4) ELSE zipClose(r4.w)
      step3(r3) == IF r3.err # 0 THEN aborted(r3) ELSE step4(createContentTypes(r3.w))
      step2(r2) == IF r2.err # 0 THEN aborted(r2) ELSE step3(createCoreProperties(r2.w))
      step1(r1) ==
        IF r1.err # 0 THEN aborted(r1)
        ELSE step2(createOwnRelationships(r1.w, genOwn))
  IN  step1(createLastPartRelationships(w, genLast))

\* A variant of Close that returns what closing the encoder returned.
CloseReturningCloseError(w, genLast, genOwn) ==
  LET aborted(r) == zipClose(r.w)
      step4(r4) == IF r4.err # 0 THEN aborted(r4) ELSE zipClose(r4.w)
      step3(r3) == IF r3.err # 0 THEN aborted(r3) ELSE step4(createContentTypes(r3.w))
      step2(r2) == IF r2.err # 0 THEN aborted(r2) ELSE step3(createOwnRelationships(r2.w, genOwn))
      step1(r1) == IF r1.err # 0 THEN aborted(r1) ELSE step2(createCoreProperties(r1.w))
  IN  step1(createLastPartRelationships(w, genLast))

\* Writer.Close: genLast and genOwn are the outcomes of the random source for
\* the relationships of the last part and for those of the package.
Close(w, genLast, genOwn) ==
  LET aborted(r) == [ err |-> r.err, w |-> zipClose(r.w).w ]
      step4(r4) == IF r4.err # 0 THEN aborted(r4) ELSE zipClose(r4.w)
      step3(r3) == IF r3.err # 0 THEN aborted(r3) ELSE step4(createContentTypes(r3.w))
      step2(r2) == IF r2.err # 0 THEN aborted(r2) ELSE step3(createOwnRelationships(r2.w, genOwn))
      step1(r1) == IF r1.err # 0 THEN aborted(r1) ELSE step2(createCoreProperties(r1.w))
  IN  step1(createLastPartRelationships(w, genLast))

(***************************************************************************)
(* Reader                                                                  *)
(***************************************************************************)

\* ResolveRelationship.
ResolveRelationship(source0, rel0) ==
  LET bs(x) == [ i \in 1..Len(x) |-> IF x[i] = "\\" THEN "/" ELSE x[i] ]
      joined(source, rel) ==
        IF ~HasPrefix(rel, << "/" >>) THEN Dir(source) \o << "/" >> \o rel ELSE rel
      resolved(source, rel1) ==
        joined(source, IF source = << "/" >> /\ ~HasPrefix(rel1, << "/" >>)
                       THEN << "/" >> \o rel1 ELSE rel1)
  IN  resolved(bs(source0), bs(rel0))

\* decodeRelationships: a relationship is External when its TargetMode
\* attribute says so and Internal otherwise.
decodeRelationships(doc) ==
  [ i \in 1..Len(doc) |->
      Rel(doc[i].Id, doc[i].Type, doc[i].Target,
          IF doc[i].TargetMode = "External" THEN ModeExternal ELSE ModeInternal) ]

\* relationshipsPart: the relationships of the parts, keyed by the upper-case
\* part name.
addRelationship(rels, name, rls) == MapSet(rels, ToUpper(name), rls)

findRelationship(rels, name) ==
  IF ToUpper(name) \in DOMAIN rels THEN rels[ToUpper(name)] ELSE << >>

\* decodeContentTypes of a document holding the given Default and Override
\* elements: an empty extension is error 206, two elements with the same
\* extension or the same part name are error 205.
decodeContentTypes(doc) ==
  LET decoded(exts, names, key) ==
        IF \E e \in exts : ToLower(e) = << >> THEN [ err |-> 206, ct |-> Nil ]
        ELSE IF \/ \E e1, e2 \in exts : e1 # e2 /\ ToLower(e1) = ToLower(e2)
                \/ \E n1, n2 \in names : n1 # n2 /\ key[n1] = key[n2]
             THEN [ err |-> 205, ct |-> Nil ]
        ELSE [ err |-> 0,
               ct |-> Ptr([ defaults |-> [ e \in { ToLower(x) : x \in exts } |->
                                            doc.Default[CHOOSE x \in exts : ToLower(x) = e] ],
                            overrides |-> [ k \in { key[n] : n \in names } |->
                                            doc.Override[CHOOSE n \in names : key[n] = k] ] ]) ]
  IN  decoded(DOMAIN doc.Default, DOMAIN doc.Override,
              [ n \in DOMAIN doc.Override |-> ToUpper(NormalizePartName(n)) ])

\* The part a relationships part belongs to, from the name of its entry.
relationshipsOwner(fileName) ==
  LET owner(ext, base) ==
        NormalizePartName(<< "/" >> \o Dir(Dir(fileName)) \o << "/" >>
                            \o SubSeq(base, 1, Len(base) - Len(ext)))
  IN  owner(Ext(fileName), Base(fileName))

\* An entry written by the caller (kind "part") holds bytes the model does not
\* know; decoding it as one of the OPC documents fails.
\* Reader.loadPartProperties: the first pass over the entries, from entry i on.
\* st holds the content types found (or Nil), the relationships of the parts,
\* those of the package and the core properties known so far.
RECURSIVE loadPartPropertiesFrom(_, _, _)
loadPartPropertiesFrom(files, i, st) ==
  IF i > Len(files)
  THEN IF st.ct = Nil THEN [ st EXCEPT !.err = 310 ] ELSE st
  ELSE LET name == << "/" >> \o files[i].name
       IN  IF EqualFold(name, contentTypesName)
           THEN LET decoded(d) ==
                      IF d.err # 0 THEN [ st EXCEPT !.err = d.err ]
                      ELSE loadPartPropertiesFrom(files, i + 1, [ st EXCEPT !.ct = d.ct ])
                IN  decoded(IF files[i].kind = "types" THEN decodeContentTypes(files[i].body[1])
                            ELSE [ err |-> ErrCannotBeDecoded, ct |-> Nil ])
           ELSE IF isRelationshipURI(name)
                THEN LET own(rls, core) ==
                            loadPartPropertiesFrom(files, i + 1,
                              [ st EXCEPT !.Relationships = rls,
                                          !.Properties =
                                             IF core = {} THEN @
                                             ELSE [ @ EXCEPT
                                                      !.PartName = rls[Min(core)].TargetURI,
                                                      !.RelationshipID = rls[Min(core)].ID ] ])
                          decoded(rls) ==
                            IF EqualFold(name, packageRelName)
                            THEN own(rls, { k \in 1..Len(rls) :
                                             EqualFold(rls[k].Type, corePropsRel) })
                            ELSE loadPartPropertiesFrom(files, i + 1,
                                   [ st EXCEPT !.rels =
                                       addRelationship(@, relationshipsOwner(files[i].name), rls) ])
                     IN  IF files[i].kind # "rels" THEN [ st EXCEPT !.err = ErrCannotBeDecoded ]
                         ELSE decoded(decodeRelationships(files[i].body))
           ELSE loadPartPropertiesFrom(files, i + 1, st)

\* Reader.loadPackage: the second pass, from entry i on.
RECURSIVE loadPackageFrom(_, _, _)

\* A variant of the second pass that attaches no relationships to the parts.
loadPackageFromBare(files, i, st) ==
  IF i > Len(files) THEN [ st EXCEPT !.p.contentTypes = st.ct[1] ]
  ELSE LET fileName == << "/" >> \o files[i].name
       IN  IF \/ EqualFold(fileName, contentTypesName)
              \/ isRelationshipURI(fileName)
              \/ HasSuffix(fileName, << "/" >>)
           THEN loadPackageFrom(files, i + 1, st)
           ELSE IF EqualFold(fileName, ResolveRelationship(<< "/" >>, st.Properties.PartName))
                THEN IF files[i].kind # "props" THEN [ st EXCEPT !.err = ErrCannotBeDecoded ]
                     ELSE loadPackageFrom(files, i + 1,
                            [ st EXCEPT !.Properties.Title = files[i].body[1] ])
           ELSE IF findTypeFails(st.ct[1], NormalizePartName(fileName))
                THEN [ st EXCEPT !.err = 208 ]
           ELSE LET added(part, r) ==
                      IF r.err # 0
                      THEN [ st EXCEPT !.err = r.err, !.Files = Append(@, part) ]
                      ELSE loadPackageFrom(files, i + 1,
                             [ st EXCEPT !.Files = Append(@, part), !.p = r.p ])
                    loaded(part) == added(part, pkgAdd(st.p, part))
                IN  loaded(Part(fileName, findType(st.ct[1], NormalizePartName(fileName)),
                                << >>))

loadPackageFrom(files, i, st) ==
  IF i > Len(files) THEN [ st EXCEPT !.p.contentTypes = st.ct[1] ]
  ELSE LET fileName == << "/" >> \o files[i].name
       IN  IF \/ EqualFold(fileName, contentTypesName)
              \/ isRelationshipURI(fileName)
              \/ HasSuffix(fileName, << "/" >>)
           THEN loadPackageFrom(files, i + 1, st)
           ELSE IF EqualFold(fileName, ResolveRelationship(<< "/" >>, st.Properties.PartName))
                THEN IF files[i].kind # "props" THEN [ st EXCEPT !.err = ErrCannotBeDecoded ]
                     ELSE loadPackageFrom(files, i + 1,
                            [ st EXCEPT !.Properties.Title = files[i].body[1] ])
           ELSE IF findTypeFails(st.ct[1], NormalizePartName(fileName))
                THEN [ st EXCEPT !.err = 208 ]
           ELSE LET added(part, r) ==
                      IF r.err # 0
                      THEN [ st EXCEPT !.err = r.err, !.Files = Append(@, part) ]
                      ELSE loadPackageFrom(files, i + 1,
                             [ st EXCEPT !.Files = Append(@, part), !.p = r.p ])
                    loaded(part) == added(part, pkgAdd(st.p, part))
                IN  loaded(Part(fileName, findType(st.ct[1], NormalizePartName(fileName)),
                                findRelationship(st.rels, fileName)))

\* A variant of newReader that loads an archive without a content-types
\* stream as if the stream declared nothing.
newReaderDefaultingTypes(files) ==
  LET st0 == [ err |-> 0, ct |-> Nil, rels |-> EmptyMap, Relationships |-> << >>,
               Properties |-> NoProperties, Files |-> << >>, p |-> newPackage ]
      loaded(st1) ==
        IF st1.err = 310
        THEN loadPackageFrom(files, 1, [ st1 EXCEPT !.err = 0,
                                                    !.ct = Ptr(newPackage.contentTypes) ])
        ELSE IF st1.err # 0 THEN st1
        ELSE loadPackageFrom(files, 1, st1)
  IN  loaded(loadPartPropertiesFrom(files, 1, st0))

\* A variant of newReader that gives a part no declaration covers the type
\* "text/xml".
newReaderDefaultingType(files) ==
  LET st0 == [ err |-> 0, ct |-> Nil, rels |-> EmptyMap, Relationships |-> << >>,
               Properties |-> NoProperties, Files |-> << >>, p |-> newPackage ]
      typed(ct, name) ==
        IF Ext(name) = << >> THEN [ ct EXCEPT !.overrides = MapSet(@, ToUpper(name), textXML) ]
        ELSE [ ct EXCEPT !.defaults = MapSet(@, ToLower(Tail(Ext(name))), textXML) ]
      RECURSIVE completed(_, _)
      completed(ct, i) ==
        IF i > Len(files) THEN ct
        ELSE LET name == NormalizePartName(<< "/" >> \o files[i].name)
             IN  completed(IF findTypeFails(ct, name) THEN typed(ct, name) ELSE ct, i + 1)
      loaded(st1) ==
        IF st1.err # 0 THEN st1
        ELSE loadPackageFrom(files, 1, [ st1 EXCEPT !.ct = Ptr(completed(st1.ct[1], 1)) ])
  IN  loaded(loadPartPropertiesFrom(files, 1, st0))

\* newReader: the Reader loaded from the entries of an archive; err is 0 when
\* the load succeeded (a Reader is returned only then).
newReader(files) ==
  LET st0 == [ err |-> 0, ct |-> Nil, rels |-> EmptyMap, Relationships |-> << >>,
               Properties |-> NoProperties, Files |-> << >>, p |-> newPackage ]
      loaded(st1) == IF st1.err # 0 THEN st1 ELSE loadPackageFrom(files, 1, st1)
  IN  loaded(loadPartPropertiesFrom(files, 1, st0))

(***************************************************************************)
(* The writer driven by its caller, and a reader opened on its output      *)
(***************************************************************************)

\* The number of operations the caller performs on the writer and its parts.
MaxOps == 4

\* An option outside the CompressionOption enumeration.
BadCompression == -3

\* The (name, content type) pairs given to Create: two valid parts with the
\* same extension, a name without leading slash, an empty content type.
CreateInputs ==
  { << << "/", "a", ".", "x" >>, << "a", "/", "b" >> >>,
    << << "/", "a", "/", "b", ".", "x" >>, << "a", "/", "b" >> >>,
    << << "b" >>, << "a", "/", "b" >> >>,
    << << "/", "a", ".", "x" >>, << >> >> }

relR == Rel(<< "r" >>, << "t" >>, << "b" >>, ModeInternal)

relNoID == Rel(<< >>, << "t" >>, << "/", "a" >>, ModeInternal)

relSameID == Rel(<< "r" >>, << "t" >>, << "h", ":", "x" >>, ModeExternal)

relSameIDNoType == Rel(<< "r" >>, << >>, << "/", "a" >>, ModeInternal)

RelInputs == { relR, relNoID, relSameID, relSameIDNoType }

\* The relationship lists a caller builds by appending.
RelListInputs ==
  { << relR >>, << relNoID >>, << relR, relSameID >>, << relR, relSameIDNoType >>,
    << relNoID, relR >> }

PartInputs ==
  { [ part |-> Part(<< "/", "a", ".", "x" >>, << "C", "/", "d" >>, << relR >>),
      compression |-> CompressionNormal ],
    [ part |-> Part(<< "/", "a", ".", "x" >>, << "C", "/", "d" >>, << >>),
      compression |-> BadCompression ],
    [ part |-> Part(<< "/", "a", "/", "b", ".", "x" >>, << "a", "/", "b" >>, << relNoID >>),
      compression |-> CompressionNormal ] }

PkgRelInputs == { Rel(<< >>, << "t" >>, << "/", "a", ".", "x" >>, ModeInternal) }

PropertiesInputs ==
  { [ PartName |-> << >>, RelationshipID |-> << "i" >>, Title |-> << "T" >> ] }

\* The IDs the random source can produce, one of them equal to an ID callers use.
GenIDs == { << "g" >>, << "r" >> }

\* The number of relationships of rs without an ID.
emptyIDs(rs) == Cardinality({ i \in 1..Len(rs) : rs[i].ID = << >> })

\* The outcomes of the random source for n generated IDs.
Gens(n) == [ 1..n -> GenIDs ]

lastRels(x) == IF x.last = Nil THEN << >> ELSE x.last[1].Relationships

VARIABLES
  w,      \* the Writer
  ret,    \* the last operation of the caller and the error it returned (0: none)
  calls,  \* history: the parts created successfully, in call order, each with
          \* the relationships it held when the writer last moved past it
  failed, \* history: some Create, CreatePart or Close call returned an error
  rd,     \* the Reader opened on the archive, Nil when none was opened
  ops     \* the number of operations the caller has performed

vars == << w, ret, calls, failed, rd, ops >>

Init ==
  /\ w = NewWriter
  /\ ret = [ op |-> "NewWriter", err |-> 0 ]
  /\ calls = << >>
  /\ failed = FALSE
  /\ rd = Nil
  /\ ops = 0

\* The history when an operation moves writer x past its last part: the
\* relationships the part holds at that moment are recorded.
noteAdvance(h, x) ==
  IF x.last # Nil /\ h # << >>
  THEN [ h EXCEPT ![Len(h)].Relationships = x.last[1].Relationships ]
  ELSE h

\* The caller creates a part: Writer.CreatePart.
CreatePart ==
  /\ ops < MaxOps
  /\ \E in \in PartInputs, gen \in Gens(emptyIDs(lastRels(w))) :
      \E r \in { add(w, in.part, in.compression, gen) } :
        /\ ops' = ops + 1
        /\ w' = r.w
        /\ ret' = [ op |-> "CreatePart", err |-> r.err ]
        /\ calls' = IF r.err = 0
                    THEN Append(noteAdvance(calls, w), in.part)
                    ELSE noteAdvance(calls, w)
        /\ failed' = (failed \/ r.err # 0)
        /\ UNCHANGED rd

\* The caller creates a part by name and content type: Writer.Create.
Create ==
  /\ ops < MaxOps
  /\ \E in \in CreateInputs, gen \in Gens(emptyIDs(lastRels(w))) :
      \E r \in { add(w, Part(in[1], in[2], << >>), CompressionNormal, gen) } :
        /\ ops' = ops + 1
        /\ w' = r.w
        /\ ret' = [ op |-> "Create", err |-> r.err ]
        /\ calls' = IF r.err = 0
                    THEN Append(noteAdvance(calls, w), Part(in[1], in[2], << >>))
                    ELSE noteAdvance(calls, w)
        /\ failed' = (failed \/ r.err # 0)
        /\ UNCHANGED rd

\* The caller appends a relationship to the part it created last (the part
\* w.last points to).
AppendRelationship ==
  \E r \in RelInputs :
    /\ ops < MaxOps
    /\ ops' = ops + 1
    /\ w.last # Nil
    /\ Append(w.last[1].Relationships, r) \in RelListInputs
    /\ w' = [ w EXCEPT !.last[1].Relationships = Append(@, r) ]
    /\ ret' = [ op |-> "AppendRelationship", err |-> 0 ]
    /\ UNCHANGED << calls, failed, rd >>

\* The caller appends a package relationship to Writer.Relationships.
AppendPackageRelationship ==
  \E r \in PkgRelInputs :
    /\ ops < MaxOps
    /\ ops' = ops + 1
    /\ ~w.closed
    /\ w.Relationships = << >>
    /\ w' = [ w EXCEPT !.Relationships = Append(@, r) ]
    /\ ret' = [ op |-> "AppendPackageRelationship", err |-> 0 ]
    /\ UNCHANGED << calls, failed, rd >>

\* The caller sets Writer.Properties.
SetProperties ==
  \E props \in PropertiesInputs :
    /\ ops < MaxOps
    /\ ops' = ops + 1
    /\ ~w.closed
    /\ w.Properties = NoProperties
    /\ w' = [ w EXCEPT !.Properties = props ]
    /\ ret' = [ op |-> "SetProperties", err |-> 0 ]
    /\ UNCHANGED << calls, failed, rd >>

\* Writer.Flush: the buffered bytes are flushed, nothing else happens.
Flush ==
  /\ ops < MaxOps
  /\ ops' = ops + 1
  /\ ret' = [ op |-> "Flush", err |-> 0 ]
  /\ UNCHANGED << w, calls, failed, rd >>

\* Writer.Close.
CloseWriter ==
  /\ ops < MaxOps
  /\ \E genLast \in Gens(emptyIDs(lastRels(w))),
        genOwn \in Gens(emptyIDs(w.Relationships)
                          + (IF w.Properties = NoProperties THEN 0 ELSE 1)) :
      \E r \in { Close(w, genLast, genOwn) } :
        /\ ops' = ops + 1
        /\ w' = r.w
        /\ ret' = [ op |-> "Close", err |-> r.err ]
        /\ calls' = noteAdvance(calls, w)
        /\ failed' = (failed \/ r.err # 0)
        /\ UNCHANGED rd

\* NewReader on the bytes a successful Close has just completed.
OpenReader ==
  /\ ret = [ op |-> "Close", err |-> 0 ]
  /\ rd = Nil
  /\ rd' = Ptr(newReader(w.zip))
  /\ UNCHANGED << w, ret, calls, failed, ops >>

Next ==
  \/ CreatePart
  \/ Create
  \/ AppendRelationship
  \/ AppendPackageRelationship
  \/ SetProperties
  \/ Flush
  \/ CloseWriter
  \/ OpenReader

Spec == Init /\ [][Next]_vars

(***************************************************************************)
(* The writer driven by a caller that uses the names the writer generates  *)
(***************************************************************************)

\* The caller creates a part under a name the writer derives for a part it
\* generates: the relationships part of "/a.x", that of the package, the
\* core-properties part.
CreateReserved ==
  /\ ops < MaxOps
  /\ \E name \in { relationshipsPartName(<< "/", "a", ".", "x" >>), packageRelName,
                    corePropsDefaultName },
        gen \in Gens(emptyIDs(lastRels(w))) :
      \E r \in { add(w, Part(name, textXML, << >>), CompressionNormal, gen) } :
        /\ ops' = ops + 1
        /\ w' = r.w
        /\ ret' = [ op |-> "Create", err |-> r.err ]
        /\ calls' = IF r.err = 0
                    THEN Append(noteAdvance(calls, w), Part(name, textXML, << >>))
                    ELSE noteAdvance(calls, w)
        /\ failed' = (failed \/ r.err # 0)
        /\ UNCHANGED rd

\* The caller appends a relationship of the core-properties type to
\* Writer.Relationships, as NewWriterFromReader does with those of a package
\* that has core properties.
AppendCoreRelationship ==
  /\ ops < MaxOps
  /\ ops' = ops + 1
  /\ ~w.closed
  /\ w.Relationships = << >>
  /\ w' = [ w EXCEPT !.Relationships =
                       Append(@, Rel(<< "c" >>, corePropsRel, corePropsDefaultName,
                                     ModeInternal)) ]
  /\ ret' = [ op |-> "AppendPackageRelationship", err |-> 0 ]
  /\ UNCHANGED << calls, failed, rd >>

NextReserved ==
  \/ CreateReserved
  \/ CreatePart
  \/ AppendCoreRelationship
  \/ SetProperties
  \/ CloseWriter

SpecReserved == Init /\ [][NextReserved]_vars

(***************************************************************************)
(* The package alone: parts added one after the other                      *)
(***************************************************************************)

PackageNameInputs ==
  { << "/", "a" >>,
    << "/", "a", ".", "x" >>,
    << "/", "a", "/", "b" >>,
    << "/", "A", ".", "X" >>,
    << "/", "a", "/", "b", "/", "c" >>,
    << "b" >> }

PackageContentTypeInputs == { << "a", "/", "b" >>, << "C", "/", "d" >> }

\* pkg.add on the package of the writer.
PackageAdd ==
  \E name \in PackageNameInputs, ct \in PackageContentTypeInputs :
    \E r \in { pkgAdd(w.p, Part(name, ct, << >>)) } :
      /\ w' = [ w EXCEPT !.p = r.p ]
      /\ ret' = [ op |-> "pkg.add", err |-> r.err, part |-> Part(name, ct, << >>) ]
      /\ calls' = IF r.err = 0 THEN Append(calls, Part(name, ct, << >>)) ELSE calls
      /\ failed' = (failed \/ r.err # 0)
      /\ UNCHANGED << rd, ops >>

SpecPackage == Init /\ [][PackageAdd]_vars

(***************************************************************************)
(* Part names alone: validation and normalization of a given name          *)
(***************************************************************************)

\* The length of the names built from the alphabet.
MaxNameLen == 4

NameAlphabet == { "/", "\\", ".", "%", "2", "F", "a" }

\* The names the specification and the tests give as examples of rejected
\* names.
RejectedNameInputs ==
  { << "/" >>,
    << >>,
    << "/", "a", "/" >>,
    << "/", "a", "." >>,
    << "/", "a", "/", "/", "b" >>,
    << "/", "a", "/", ".", "/", "b" >>,
    << "/", "a", "/", "%", "2", "F", "b" >>,
    << "/", "a", "/", "%", "4", "1", ".", "x", "m", "l" >> }

\* Names with a raw two-byte UTF-8 character (U+00E9), alone and followed by
\* a space, and with a byte that starts no UTF-8 encoding.
RawNameInputs ==
  { << "/", CharOf[195], CharOf[169] >>,
    << "/", CharOf[195], CharOf[169], " ", "b" >>,
    << "/", CharOf[255], "[" >> }

OtherNameInputs ==
  { << "/", "a", ".", "/", "b" >>,
    << "/", "a", "%", "z", "z" >>,
    << "/", "a", "%" >>,
    << "/", "a", " ", "b" >>,
    << "/", "a", "#", "b" >>,
    << "a", "\\", "b" >>,
    << "/", "%", "3", "a" >>,
    << "/", "a", "/", ".", ".", "/", "b" >>,
    << "/", "%", "2", "5", " " >>,
    << "/", "a", "%", "2" >>,
    << "%", "2", "F", "%", "%" >> }

NameInputs ==
  UNION { [ 1..k -> NameAlphabet ] : k \in 0..MaxNameLen }
    \cup RejectedNameInputs \cup RawNameInputs \cup OtherNameInputs

InitNames ==
  /\ w = NewWriter
  /\ calls = << >>
  /\ failed = FALSE
  /\ rd = Nil
  /\ ops = 0
  /\ \E name \in NameInputs : ret = [ op |-> "name", name |-> name ]

\* validatePartName of the name.
ValidateName ==
  /\ ret.op = "name"
  /\ ret' = [ op |-> "validatePartName", name |-> ret.name,
              err |-> validatePartName(ret.name) ]
  /\ UNCHANGED << w, calls, failed, rd, ops >>

\* NormalizePartName of the name.
NormalizeName ==
  /\ ret.op = "name"
  /\ ret' = [ op |-> "NormalizePartName", name |-> ret.name,
              out |-> NormalizePartName(ret.name) ]
  /\ UNCHANGED << w, calls, failed, rd, ops >>

\* NormalizePartName of the name a call of NormalizePartName returned.
NormalizeAgain ==
  /\ ret.op = "NormalizePartName"
  /\ ret.out # PANIC
  /\ ret.out # ret.name
  /\ ret' = [ op |-> "NormalizePartName", name |-> ret.out,
              out |-> NormalizePartName(ret.out) ]
  /\ UNCHANGED << w, calls, failed, rd, ops >>

NextNames == ValidateName \/ NormalizeName \/ NormalizeAgain

SpecNames == InitNames /\ [][NextNames]_vars

(***************************************************************************)
(* The reader alone: NewReader on a given archive                          *)
(***************************************************************************)

\* The number of entries of an archive.
MaxEntries == 3

\* The entries archives are made of: a content-types stream declaring the
\* extension "x" and the part "/a/b"; the relationships of the package, which
\* name the core-properties part; that part; the relationships of "/a.x", once
\* as a document that cannot be decoded; parts the content types cover ("a.x",
\* and "A/B" up to case) and parts they do not ("c.y", "c"); a directory.
ArchiveEntries ==
  { [ name |-> Tail(contentTypesName), kind |-> "types",
      body |-> << [ Default |-> MapSet(EmptyMap, << "x" >>, textXML),
                    Override |-> MapSet(EmptyMap, << "/", "a", "/", "b" >>, textXML) ] >> ],
    [ name |-> Tail(packageRelName), kind |-> "rels",
      body |-> encodeRelationships(<< Rel(<< "r" >>, corePropsRel, corePropsDefaultName,
                                          ModeInternal) >>) ],
    [ name |-> Tail(corePropsDefaultName), kind |-> "props", body |-> << << "t" >> >> ],
    [ name |-> << "_", "r", "e", "l", "s", "/", "a", ".", "x", ".", "r", "e", "l", "s" >>,
      kind |-> "rels",
      body |-> encodeRelationships(<< Rel(<< "r" >>, << "t" >>, << "/", "a", "/", "b" >>,
                                          ModeInternal) >>) ],
    [ name |-> << "_", "r", "e", "l", "s", "/", "a", ".", "x", ".", "r", "e", "l", "s" >>,
      kind |-> "part", body |-> << >> ],
    [ name |-> << "a", ".", "x" >>, kind |-> "part", body |-> << >> ],
    [ name |-> << "A", "/", "B" >>, kind |-> "part", body |-> << >> ],
    [ name |-> << "c", ".", "y" >>, kind |-> "part", body |-> << >> ],
    [ name |-> << "c" >>, kind |-> "part", body |-> << >> ],
    [ name |-> << "d", "/" >>, kind |-> "part", body |-> << >> ] }

Archives == UNION { [ 1..k -> ArchiveEntries ] : k \in 0..MaxEntries }

InitArchives ==
  /\ w = NewWriter
  /\ calls = << >>
  /\ failed = FALSE
  /\ rd = Nil
  /\ ops = 0
  /\ \E files \in Archives : ret = [ op |-> "archive", files |-> files ]

\* newReader on the archive: a Reader is returned only without an error.
LoadArchive ==
  /\ ret.op = "archive"
  /\ \E r \in { newReader(ret.files) } :
       /\ ret' = [ op |-> "newReader", files |-> ret.files, err |-> r.err ]
       /\ rd' = IF r.err = 0 THEN Ptr(r) ELSE Nil
  /\ UNCHANGED << w, calls, failed, ops >>

SpecArchives == InitArchives /\ [][LoadArchive]_vars

(***************************************************************************)
(* Relationships alone: validation of a given relationship                 *)
(***************************************************************************)

\* IDs and types: empty, blank and not blank.
RelationshipIDInputs == { << >>,
    << " " >>,
    << "r" >> }

RelationshipTypeInputs == { << >>,
    << " " >>,
    << "t" >> }

\* Targets: empty and blank; rooted and relative paths; references that are
\* or resolve to the relationships part of the package or of a part, written
\* in either case; names that only look like one; absolute URIs; references
\* url.Parse rejects; a path between spaces.
RelationshipTargetInputs ==
  { << >>,
    << " " >>,
    << "/", "a" >>,
    << "b" >>,
    << "/", "_", "r", "e", "l", "s", "/", ".", "r", "e", "l", "s" >>,
    << "_", "r", "e", "l", "s", "/", ".", "r", "e", "l", "s" >>,
    << "/", "a", "/", "_", "r", "e", "l", "s", "/", "b", ".", "r", "e", "l", "s" >>,
    << ".", ".", "/", "_", "r", "e", "l", "s", "/", "b", ".", "r", "e", "l", "s" >>,
    << "_", "R", "E", "L", "S", "/", "x", ".", "R", "E", "L", "S" >>,
    << "/", "a", "/", "b", ".", "r", "e", "l", "s" >>,
    << ".", "/", "_", "r", "e", "l", "s", "/", ".", "r", "e", "l", "s" >>,
    << "/", "x", "/", "_", "r", "e", "l", "s", "/", ".", "r", "e", "l", "s" >>,
    << "h", "t", "t", "p", ":", "/", "/", "x", "/" >>,
    << "m", "a", "i", "l", "t", "o", ":", "a" >>,
    << "%", "z", "z" >>,
    << ":", "a" >>,
    << "a", ":", "b", "/", "c" >>,
    << " ", "/", "a", " " >> }

\* Sources: the package and parts at several depths.
RelationshipSourceInputs == { << "/" >>,
    << "/", "a" >>,
    << "/", "a", "/", "b" >>,
    << "/", "x", "/", "y", ".", "z" >> }

InitRelationships ==
  /\ w = NewWriter
  /\ calls = << >>
  /\ failed = FALSE
  /\ rd = Nil
  /\ ops = 0
  /\ \E id \in RelationshipIDInputs, type \in RelationshipTypeInputs,
        target \in RelationshipTargetInputs, mode \in { ModeInternal, ModeExternal },
        source \in RelationshipSourceInputs :
       ret = [ op |-> "relationship", r |-> Rel(id, type, target, mode), source |-> source ]

\* Relationship.validate of the relationship against the source.
ValidateRelationship ==
  /\ ret.op = "relationship"
  /\ ret' = [ op |-> "Relationship.validate", r |-> ret.r, source |-> ret.source,
              err |-> validateRelationship(ret.r, ret.source) ]
  /\ UNCHANGED << w, calls, failed, rd, ops >>

SpecRelationships == InitRelationships /\ [][ValidateRelationship]_vars

(***************************************************************************)
(* Relationship IDs alone: the generator                                   *)
(***************************************************************************)

\* The characters generated IDs are made of.
charBytes ==
  << "a", "b", "c", "d", "e", "f", "g", "h", "i", "j", "k", "l", "m",
     "n", "o", "p", "q", "r", "s", "t", "u", "v", "w", "x", "y", "z",
     "A", "B", "C", "D", "E", "F", "G", "H", "I", "J", "K", "L", "M",
     "N", "O", "P", "Q", "R", "S", "T", "U", "V", "W", "X", "Y", "Z",
     "1", "2", "3", "4", "5", "6", "7", "8", "9" >>

\* The length of a generated ID.
GeneratedIDLen == 8

\* The outcomes of rd.Intn(len(charBytes)) the model draws: the first and the
\* last letter ("a", "Z") and the first and the last digit ("1", "9").
IntnOutcomes == { 0, 51, 52, Len(charBytes) - 1 }

\* Relationship.ensureID: a relationship with an ID keeps it; one without
\* gets the characters the outcomes of the random source select.
ensureID(r, outcomes) ==
  IF r.ID # << >> THEN r
  ELSE [ r EXCEPT !.ID = [ i \in 1..GeneratedIDLen |-> charBytes[outcomes[i] + 1] ] ]

InitIDs ==
  /\ w = NewWriter
  /\ calls = << >>
  /\ failed = FALSE
  /\ rd = Nil
  /\ ops = 0
  /\ \E id \in { << >>, << "r" >> } :
       ret = [ op |-> "relationship",
               r |-> Rel(id, << "t" >>, << "/", "a" >>, ModeInternal) ]

\* Relationship.ensureID on the relationship, for some outcomes of the
\* random source.
EnsureID ==
  /\ ret.op = "relationship"
  /\ \E outcomes \in [ 1..GeneratedIDLen -> IntnOutcomes ] :
       ret' = [ op |-> "ensureID", before |-> ret.r, r |-> ensureID(ret.r, outcomes) ]
  /\ UNCHANGED << w, calls, failed, rd, ops >>

SpecIDs == InitIDs /\ [][EnsureID]_vars

(***************************************************************************)
(* The content types document: the dictionary encoded more than once       *)
(***************************************************************************)

EncodeNameInputs ==
  { << "/", "a", ".", "x" >>,
    << "/", "b", ".", "y" >>,
    << "/", "c" >>,
    << "/", "d" >> }

\* pkg.add on the package of the writer, with parts of different extensions
\* and parts without extension.
AddEncoded ==
  \E name \in EncodeNameInputs, ct \in PackageContentTypeInputs :
    \E r \in { pkgAdd(w.p, Part(name, ct, << >>)) } :
      /\ w' = [ w EXCEPT !.p = r.p ]
      /\ ret' = [ op |-> "pkg.add", err |-> r.err, part |-> Part(name, ct, << >>) ]
      /\ calls' = IF r.err = 0 THEN Append(calls, Part(name, ct, << >>)) ELSE calls
      /\ failed' = (failed \/ r.err # 0)
      /\ UNCHANGED << rd, ops >>

\* The orders in which a range statement may visit the keys of a map: the
\* language leaves the order open, so every order of the keys is one.
rangeOrders(m) ==
  { o \in [ 1..Cardinality(DOMAIN m) -> DOMAIN m ] :
      \A i, j \in DOMAIN o : i # j => o[i] # o[j] }

\* contentTypes.toXML: the Default elements in the order de in which the
\* defaults were visited, then the Override elements in the order ov.
contentTypesElements(c, de, ov) ==
  [ i \in 1..Len(de) |->
      [ XMLName |-> "Default", Extension |-> de[i],
        ContentType |-> c.defaults[de[i]] ] ]
  \o
  [ i \in 1..Len(ov) |->
      [ XMLName |-> "Override", PartName |-> ov[i],
        ContentType |-> c.overrides[ov[i]] ] ]

\* pkg.encodeContentTypes: the document of the dictionary of the package.
EncodeContentTypes ==
  \E de \in rangeOrders(w.p.contentTypes.defaults),
     ov \in rangeOrders(w.p.contentTypes.overrides) :
    /\ ret' = [ op |-> "encodeContentTypes", err |-> 0,
                Types |-> contentTypesElements(w.p.contentTypes, de, ov) ]
    /\ UNCHANGED << w, calls, failed, rd, ops >>

SpecEncode == Init /\ [][AddEncoded \/ EncodeContentTypes]_vars

(***************************************************************************)
(* Properties                                                              *)
(***************************************************************************)

\* The position of the first entry of zip with the given name and kind, 0
\* when there is none.
entryIndex(zip, name, kind) ==
  IF \E j \in 1..Len(zip) : zip[j].name = name /\ zip[j].kind = kind
  THEN Min({ j \in 1..Len(zip) : zip[j].name = name /\ zip[j].kind = kind })
  ELSE 0

closedSuccessfully == ret = [ op |-> "Close", err |-> 0 ]

\* C1: right after a successful Close, (a) the body entries of the caller's
\* parts are in the archive in the order of the successful Create/CreatePart
\* calls, (b) the relationships part of every created part comes after the
\* body entry of that part, and (c) [Content_Types].xml is in the archive
\* exactly once, as the last entry.
C1_OrderingAfterClose ==
  closedSuccessfully =>
    /\ [ i \in 1..Len(calls) |-> zipName(calls[i].Name) ]
         = [ i \in 1..Len(SelectSeq(w.zip, LAMBDA e : e.kind = "part")) |->
               SelectSeq(w.zip, LAMBDA e : e.kind = "part")[i].name ]
    /\ \A i \in 1..Len(calls) :
         /\ calls[i].Relationships # << >>
              => entryIndex(w.zip, zipName(relationshipsPartName(calls[i].Name)), "rels") > 0
         /\ entryIndex(w.zip, zipName(relationshipsPartName(calls[i].Name)), "rels") > 0
              => entryIndex(w.zip, zipName(calls[i].Name), "part")
                   < entryIndex(w.zip, zipName(relationshipsPartName(calls[i].Name)), "rels")
    /\ Cardinality({ j \in 1..Len(w.zip) : w.zip[j].name = zipName(contentTypesName) }) = 1
    /\ w.zip[Len(w.zip)].name = zipName(contentTypesName)

\* Two parts were created, the first of them with relationships, and Close
\* succeeded.
C1_Witness ==
  /\ closedSuccessfully
  /\ Len(calls) = 2
  /\ calls[1].Relationships # << >>

\* The name a part is known by when names are compared without case.
upperName(part) == ToUpper(NormalizePartName(part.Name))

\* C2: after any sequence of additions to a package, no two of the accepted
\* names are equal without regard to case, and no accepted name followed by
\* "/" is a prefix of another accepted name (compared without case).
C2_NoCollision ==
  \A i, j \in 1..Len(calls) :
    i # j =>
      /\ upperName(calls[i]) # upperName(calls[j])
      /\ ~HasPrefix(upperName(calls[j]), upperName(calls[i]) \o << "/" >>)

\* The target of relationship r of source: the URI an Internal target stands
\* for when resolved against the source.
resolved(source, r) ==
  IF r.TargetMode = ModeInternal THEN ResolveReference(source, r.TargetURI)
  ELSE r.TargetURI

\* The relationships rs and qs of source are the same but for their IDs.
sameRelationships(source, rs, qs) ==
  /\ Len(rs) = Len(qs)
  /\ \A k \in 1..Len(rs) :
       /\ rs[k].Type = qs[k].Type
       /\ rs[k].TargetMode = qs[k].TargetMode
       /\ resolved(source, rs[k]) = resolved(source, qs[k])

\* C3: a Reader opened on the archive of a writer all of whose calls
\* succeeded has one File for each part created, with the name and the
\* content type given (the content type without regard to case) and the
\* relationships written for it (same type, target and mode, the target of
\* an Internal relationship resolved against the part), the relationships
\* of the package and the core properties of the writer.
C3_RoundTrip ==
  (closedSuccessfully /\ rd # Nil /\ ~failed) =>
    /\ rd[1].err = 0
    /\ Len(rd[1].Files) = Len(calls)
    /\ \A i \in 1..Len(calls) :
         \E j \in 1..Len(rd[1].Files) :
           /\ rd[1].Files[j].Name = calls[i].Name
           /\ EqualFold(rd[1].Files[j].ContentType, calls[i].ContentType)
           /\ sameRelationships(calls[i].Name, rd[1].Files[j].Relationships,
                                calls[i].Relationships)
    /\ sameRelationships(<< "/" >>, rd[1].Relationships, w.Relationships)
    /\ rd[1].Properties.Title = w.Properties.Title

\* The step is a call of one of the operations in names.
called(names) == ops' = ops + 1 /\ ret'.op \in names

\* The codes of the package errors start at 100; the smaller ones stand for
\* the errors of the archive encoder.
isValidationError(err) == err >= 100

\* C4: a Create or CreatePart call that returns a validation error adds no
\* entry to the archive (no part and no relationships part) and leaves the
\* parts and the content types of the package and the last part of the
\* writer as they were.
C4_ErrorLeavesWriterUnchanged ==
  [][ (called({ "Create", "CreatePart" }) /\ isValidationError(ret'.err)) =>
        /\ w'.zip = w.zip
        /\ w'.p = w.p
        /\ (w'.last = Nil) = (w.last = Nil)
        /\ w.last # Nil => w'.last[1].Name = w.last[1].Name ]_vars

\* C5: FindType of the name of every part in the package gives the content
\* type the part was created with, in its normalized form.
C5_FindTypeOfEveryPart ==
  \A i \in 1..Len(calls) :
    upperName(calls[i]) \in w.p.parts =>
      /\ ~findTypeFails(w.p.contentTypes, NormalizePartName(calls[i].Name))
      /\ findType(w.p.contentTypes, NormalizePartName(calls[i].Name))
           = FormatMediaType(calls[i].ContentType)

\* The IDs of the elements of every relationships entry of zip are pairwise
\* distinct.
distinctIDs(zip) ==
  \A e \in 1..Len(zip) :
    zip[e].kind = "rels" =>
      \A k1, k2 \in 1..Len(zip[e].body) :
        k1 # k2 => zip[e].body[k1].Id # zip[e].body[k2].Id

\* Two of the relationships rs have the same ID, given by the caller.
duplicateID(rs) ==
  \E k1, k2 \in 1..Len(rs) : k1 # k2 /\ rs[k1].ID # << >> /\ rs[k1].ID = rs[k2].ID

\* The step is a call that moves the writer past its last part.
advance == called({ "Create", "CreatePart", "Close" }) /\ w.last # Nil

\* Every relationship of rs has a type and a target valid for source.
eachValid(source, rs) ==
  \A k \in 1..Len(rs) :
    /\ TrimSpace(rs[k].Type) # << >>
    /\ validateRelationshipTarget(source, rs[k].TargetURI, rs[k].TargetMode) = 0

C7_ClosedIsTerminal ==
  [][ (w.closed /\ called({ "Create", "CreatePart", "Flush", "Close" })) =>
        /\ ret'.err # 0
        /\ w'.zip = w.zip
        /\ w'.p.parts = w.p.parts ]_vars

\* The step wrote every stream Close writes, the content types as the last.
emissionSucceeded ==
  /\ Len(w'.zip) > Len(w.zip)
  /\ w'.zip[Len(w'.zip)].kind = "types"

\* C8: every Close call leaves the archive encoder closed, and when writing
\* one of the streams failed the call returns the error of that failure:
\* it returns an error of closing the encoder only when every stream was
\* written, and it fails whenever one was not.
C8_CloseReleasesAndKeepsError ==
  [][ called({ "Close" }) =>
        /\ w'.closed
        /\ ret'.err = ErrClosedTwice => emissionSucceeded
        /\ ~emissionSucceeded => ret'.err # 0 ]_vars

\* Close was called on a writer closed before: writing the content types
\* failed with 112 and closing the encoder a second time failed as well.
C8_Witness ==
  /\ ret = [ op |-> "Close", err |-> 112 ]
  /\ w.closed
  /\ w.zip # << >>
  /\ w.zip[Len(w.zip)].kind = "types"

\* C9: after Close on a writer without parts, package relationships and core
\* properties, Close having returned no error, the archive holds one entry,
\* [Content_Types].xml, with no Default and no Override element.
C9_EmptyPackage ==
  ( /\ closedSuccessfully
    /\ ~failed
    /\ calls = << >>
    /\ w.Relationships = << >>
    /\ w.Properties = NoProperties ) =>
      /\ Len(w.zip) = 1
      /\ w.zip[1].name = zipName(contentTypesName)
      /\ w.zip[1].body = << [ Default |-> EmptyMap, Override |-> EmptyMap ] >>

\* The step wrote the relationships part of the last part of the writer.
sidecarWritten ==
  /\ advance
  /\ Len(w'.zip) > Len(w.zip)
  /\ w'.zip[Len(w.zip) + 1].kind = "rels"
  /\ w'.zip[Len(w.zip) + 1].name = zipName(relationshipsPartName(w.last[1].Name))

\* Element x of a relationships part is what is written for relationship r,
\* whatever ID was generated when r had none.
writtenFor(x, r) ==
  /\ x.Type = r.Type
  /\ (x.TargetMode = "External") = (r.TargetMode = ModeExternal)
  /\ x.Target \in { r.TargetURI, << "/" >> \o r.TargetURI }
  /\ r.ID # << >> => x.Id = r.ID

extends(a, b) == Len(a) > Len(b) + 1 /\ HasPrefix(a, b \o << "/" >>)

\* C11: pkg.add of a valid part whose name is, without regard to case, the
\* name of a part of the package fails with 112; pkg.add of one whose name
\* extends the name of a part of the package by "/" and more, or is
\* extended so by one, fails with 111; the package stays as it was.
C11_DuplicateAndPrefixRejected ==
  [][ (ret'.op = "pkg.add" /\ validatePart(ret'.part) = 0) =>
        /\ upperName(ret'.part) \in w.p.parts => (ret'.err = 112 /\ w'.p = w.p)
        /\ ( /\ upperName(ret'.part) \notin w.p.parts
             /\ \E k \in w.p.parts :
                  extends(upperName(ret'.part), k) \/ extends(k, upperName(ret'.part)) )
           => (ret'.err = 111 /\ w'.p = w.p) ]_vars

\* A pchar other than "%": unreserved, a sub-delimiter, ":" or "@".
pchar(c) ==
  \/ isAlpha(c) \/ isDigit(c) \/ c \in { "-", ".", "_", "~" }
  \/ c \in { "!", "$", "&", "'", "(", ")", "*", "+", ",", ";", "=", ":", "@" }

\* Every character of segment seg is a pchar or part of a %HH sequence, and
\* no %HH sequence encodes an unreserved character, "/" or "\".
segmentChars(seg) ==
  \A i \in 1..Len(seg) :
    IF seg[i] = "%"
    THEN /\ i + 2 <= Len(seg) /\ ishex(seg[i + 1]) /\ ishex(seg[i + 2])
         /\ ~pchar(unpct(seg[i + 1], seg[i + 2])) \/ unpct(seg[i + 1], seg[i + 2])
               \in { "!", "$", "&", "'", "(", ")", "*", "+", ",", ";", "=", ":", "@" }
         /\ unpct(seg[i + 1], seg[i + 2]) \notin { "/", "\\" }
    ELSE pchar(seg[i])

\* The invariants of a part name.
partNameInvariants(name) ==
  /\ name # << >>
  /\ name[1] = "/"
  /\ name[Len(name)] # "/"
  /\ \A k \in 1..Len(SplitSlash(Tail(name))) :
       /\ SplitSlash(Tail(name))[k] # << >>
       /\ SplitSlash(Tail(name))[k][Len(SplitSlash(Tail(name))[k])] # "."
       /\ segmentChars(SplitSlash(Tail(name))[k])

\* C12: a name validatePartName accepts satisfies every invariant of a part
\* name: non-empty, a leading "/", no trailing "/", no segment that is empty
\* or ends with "." (so none is "." or ".."), every segment character a
\* pchar or part of a %HH sequence, no %HH of an unreserved character, "/"
\* or "\".
C12_AcceptedNamesAreWellFormed ==
  (ret.op = "validatePartName" /\ ret.err = 0) => partNameInvariants(ret.name)

\* The two listed names that end with "/".
slashEnded == { << "/" >>, << "/", "a", "/" >> }

\* C13 as stated: each of the eight listed names is rejected, and no two of
\* them are rejected with the same error code.
C13_EightDistinctCodes ==
  (ret.op = "validatePartName" /\ ret.name \in RejectedNameInputs) =>
    /\ ret.err # 0
    /\ \A other \in RejectedNameInputs \ { ret.name } :
         validatePartName(other) # ret.err

\* C13: each of the eight listed names is rejected, and two of them are
\* rejected with the same error code only when they are "/" and "/a/", which
\* both end with "/" and are rejected with 105.
C13_DistinctCodesButTrailingSlash ==
  (ret.op = "validatePartName" /\ ret.name \in RejectedNameInputs) =>
    /\ ret.err # 0
    /\ \A other \in RejectedNameInputs \ { ret.name } :
         validatePartName(other) = ret.err =>
           ({ ret.name, other } = slashEnded /\ ret.err = 105)

C13_Witness ==
  ret.op = "validatePartName" /\ ret.name = << "/", "a", "." >> /\ ret.err = 109

\* C14: NormalizePartName is idempotent: normalizing the name a call of
\* NormalizePartName returned returns that name again.
C14_NormalizeIdempotent ==
  [][ ( /\ ret.op = "NormalizePartName"
        /\ ret'.op = "NormalizePartName"
        /\ ret'.name = ret.out ) => ret'.out = ret.out ]_vars

\* C15: NormalizePartName never panics: every call returns a string.
C15_NormalizeNeverPanics ==
  ret.op = "NormalizePartName" => ret.out # PANIC

\* C16: every name validation accepts is a fixed point of NormalizePartName.
C16_AcceptedIsFixedPoint ==
  (ret.op = "validatePartName" /\ ret.err = 0) =>
    NormalizePartName(ret.name) = ret.name

\* The entries of an archive by what their names say they are.
entryName(e) == << "/" >> \o e.name

isTypesEntry(e) == EqualFold(entryName(e), contentTypesName)

isRelsEntry(e) == ~isTypesEntry(e) /\ isRelationshipURI(entryName(e))

isDirectoryEntry(e) == HasSuffix(entryName(e), << "/" >>)

hasContentTypes(files) == \E i \in 1..Len(files) : isTypesEntry(files[i])

\* Every relationships part of the archive holds a relationships document.
relsDecodable(files) ==
  \A i \in 1..Len(files) : isRelsEntry(files[i]) => files[i].kind = "rels"

\* C17 as stated: loading an archive without a content-types stream fails
\* with 310 and returns no Reader, whatever its other entries are.
C17_NoContentTypesIs310 ==
  (ret.op = "newReader" /\ ~hasContentTypes(ret.files)) =>
    (ret.err = 310 /\ rd = Nil)

\* C17: loading an archive without a content-types stream fails and returns
\* no Reader; the error is 310 when every relationships part of the archive
\* is decoded, in whatever order the entries come, and it is the decoding
\* error of a relationships part otherwise.
C17_NoContentTypesFails ==
  (ret.op = "newReader" /\ ~hasContentTypes(ret.files)) =>
    /\ rd = Nil
    /\ ret.err # 0
    /\ relsDecodable(ret.files) => ret.err = 310
    /\ ~relsDecodable(ret.files) => ret.err = ErrCannotBeDecoded

C17_Witness ==
  /\ ret.op = "newReader"
  /\ ~hasContentTypes(ret.files)
  /\ Len(ret.files) = MaxEntries
  /\ isRelsEntry(ret.files[1])
  /\ ret.files[2].name = << "a", ".", "x" >>
  /\ ret.err = 310
  /\ rd = Nil

\* The content-types document the load ends up with: that of the last
\* content-types stream of the archive.
typesDocument(files) ==
  files[CHOOSE i \in 1..Len(files) :
          /\ isTypesEntry(files[i])
          /\ \A j \in (i + 1)..Len(files) : ~isTypesEntry(files[j])].body[1]

\* The name the package relationships give the core-properties part; the
\* empty name when they name none.
corePropertiesName(files) ==
  LET named == { << i, k >> \in (1..Len(files)) \X (1..MaxEntries) :
                   /\ EqualFold(entryName(files[i]), packageRelName)
                   /\ files[i].kind = "rels"
                   /\ k <= Len(files[i].body)
                   /\ EqualFold(files[i].body[k].Type, corePropsRel) }
  IN  IF named = {} THEN << >>
      ELSE LET at(ik) == files[ik[1]].body[ik[2]].Target
           IN  at(CHOOSE ik \in named : \A other \in named : ik[1] >= other[1])

isCorePropertiesEntry(files, e) ==
  EqualFold(entryName(e), ResolveRelationship(<< "/" >>, corePropertiesName(files)))

\* The entry is a part of the package: not a directory, not the content-types
\* stream, not a relationships part, not the core-properties part.
isPartEntry(files, e) ==
  /\ ~isDirectoryEntry(e)
  /\ ~isTypesEntry(e)
  /\ ~isRelsEntry(e)
  /\ ~isCorePropertiesEntry(files, e)

\* The document has no Override for the name and no Default for its extension.
undeclared(doc, name) ==
  /\ \A n \in DOMAIN doc.Override :
       ToUpper(NormalizePartName(n)) # ToUpper(NormalizePartName(name))
  /\ \/ Ext(name) = << >>
     \/ \A x \in DOMAIN doc.Default : ToLower(x) # ToLower(Tail(Ext(name)))

\* The part entries of the archive that have no content type.
untyped(files) ==
  { i \in 1..Len(files) :
      /\ isPartEntry(files, files[i])
      /\ ~hasContentTypes(files) \/ undeclared(typesDocument(files), entryName(files[i])) }

\* The first pass over the archive succeeds: there is a content-types stream,
\* and every content-types stream and relationships part is decoded.
firstPassSucceeds(files) ==
  /\ hasContentTypes(files)
  /\ relsDecodable(files)
  /\ \A i \in 1..Len(files) :
       isTypesEntry(files[i]) =>
         (files[i].kind = "types" /\ decodeContentTypes(files[i].body[1]).err = 0)

\* The entries before entry i load: the core-properties part is decoded, and
\* the parts have valid names no two of which collide.
loadsBefore(files, i) ==
  \A j \in 1..(i - 1) :
    /\ (~isDirectoryEntry(files[j]) /\ ~isTypesEntry(files[j]) /\ ~isRelsEntry(files[j])
          /\ isCorePropertiesEntry(files, files[j])) => files[j].kind = "props"
    /\ isPartEntry(files, files[j]) =>
         /\ validatePartName(entryName(files[j])) = 0
         /\ \A k \in 1..(j - 1) :
              isPartEntry(files, files[k]) =>
                /\ ~EqualFold(entryName(files[j]), entryName(files[k]))
                /\ ~extends(ToUpper(entryName(files[j])), ToUpper(entryName(files[k])))
                /\ ~extends(ToUpper(entryName(files[k])), ToUpper(entryName(files[j])))

\* C18 as stated: loading fails with 208 and returns no Reader whenever some
\* part entry has neither a matching Override nor a Default for its extension.
C18_UntypedPartIs208 ==
  (ret.op = "newReader" /\ untyped(ret.files) # {}) =>
    (ret.err = 208 /\ rd = Nil)

\* C18: loading fails and returns no Reader whenever some part entry has
\* neither a matching Override nor a Default for its extension; the error is
\* 208 when the first pass succeeds and the entries before the first such
\* part load, and it is the error of the earlier failure otherwise.
C18_UntypedPartFails ==
  (ret.op = "newReader" /\ untyped(ret.files) # {}) =>
    /\ rd = Nil
    /\ ret.err # 0
    /\ (firstPassSucceeds(ret.files) /\ loadsBefore(ret.files, Min(untyped(ret.files))))
         => ret.err = 208

C18_Witness ==
  /\ ret.op = "newReader"
  /\ Len(ret.files) = MaxEntries
  /\ isTypesEntry(ret.files[MaxEntries])
  /\ ret.files[1].name = << "a", ".", "x" >>
  /\ untyped(ret.files) = { 2 }
  /\ ret.err = 208
  /\ rd = Nil

\* The text is empty or holds white space only.
blank(s) == \A i \in 1..Len(s) : s[i] \in { " ", CharOf[9], CharOf[10], CharOf[13] }

\* The text without the white space around it.
trimmed(s) ==
  LET kept == { i \in 1..Len(s) : ~blank(<< s[i] >>) }
  IN  IF kept = {} THEN << >>
      ELSE SubSeq(s, Min(kept), CHOOSE i \in kept : \A j \in kept : j <= i)

\* The error the rules of relationship validation give, taken in the order
\* the claim lists them; 0 when the relationship breaks none.
expectedRelationshipError(r, source) ==
  IF blank(r.ID) THEN 126
  ELSE IF blank(r.Type) THEN 127
  ELSE IF blank(r.TargetURI) \/ urlParseFails(trimmed(r.TargetURI)) THEN 128
  ELSE IF r.TargetMode = ModeInternal /\ IsAbs(trimmed(r.TargetURI)) THEN 129
  ELSE IF /\ r.TargetMode = ModeInternal
          /\ isRelationshipURI(ResolveReference(source, trimmed(r.TargetURI)))
       THEN 125
  ELSE 0

newEntries == SubSeq(w'.zip, Len(w.zip) + 1, Len(w'.zip))

\* The entry is the relationships part of some part (not of the package).
isSidecar(e) == e.kind = "rels" /\ e.name # zipName(packageRelName)

\* The entry is the relationships part of the part named name.
isSidecarOf(e, name) == e.kind = "rels" /\ e.name = zipName(relationshipsPartName(name))

\* C20: the relationships part of a part is written one part late. (a) A
\* step writes at most one relationships part of a part, as the first entry it
\* adds, and it is that of the part created last before the step, never that
\* of the part the step creates. (b) A successful Create, CreatePart or Close
\* that follows the creation of a part with relationships writes the
\* relationships part of that part first, and a Create or CreatePart then
\* opens the body entry of the new part right after it. (c) When Close
\* succeeds after a part with relationships and then a part without were
\* created, and the package has neither relationships nor properties, the
\* entries are the body of the first part, its relationships part, the body
\* of the second part and [Content_Types].xml, in this order.
C20_SidecarDeferredByOnePart ==
  [][ /\ \A k \in 1..Len(newEntries) :
           isSidecar(newEntries[k]) =>
             (k = 1 /\ advance /\ isSidecarOf(newEntries[1], w.last[1].Name))
      /\ (advance /\ ret'.err = 0 /\ w.last[1].Relationships # << >>) =>
           /\ newEntries # << >>
           /\ isSidecarOf(newEntries[1], w.last[1].Name)
           /\ called({ "Create", "CreatePart" }) =>
                /\ Len(newEntries) = 2
                /\ newEntries[2].kind = "part"
                /\ newEntries[2].name = zipName(w'.last[1].Name)
      /\ ( /\ called({ "Close" }) /\ ret'.err = 0
           /\ Len(calls') = 2
           /\ calls'[1].Relationships # << >>
           /\ calls'[2].Relationships = << >>
           /\ w.Relationships = << >> /\ w.Properties = NoProperties ) =>
           [ k \in 1..Len(w'.zip) |-> << w'.zip[k].kind, w'.zip[k].name >> ]
             = << << "part", zipName(calls'[1].Name) >>,
                  << "rels", zipName(relationshipsPartName(calls'[1].Name)) >>,
                  << "part", zipName(calls'[2].Name) >>,
                  << "types", zipName(contentTypesName) >> >> ]_vars

\* Close succeeded after CreatePart of a part with relationships and the
\* creation of a part without, in a package without relationships and
\* properties: the archive has the four entries.
C20_Witness ==
  /\ closedSuccessfully
  /\ Len(calls) = 2
  /\ calls[1].Relationships # << >>
  /\ calls[2].Relationships = << >>
  /\ Len(w.zip) = 4
  /\ isSidecarOf(w.zip[2], calls[1].Name)
  /\ w.zip[3].name = zipName(calls[2].Name)

\* The relationships part of the last part of the writer is in the archive.
lastSidecarEmitted ==
  /\ w.last # Nil
  /\ entryIndex(w.zip, zipName(relationshipsPartName(w.last[1].Name)), "rels") > 0

\* C21: once the relationships part of the last part has been written, a
\* further Create, CreatePart or Close does not write it again and does not
\* fail because of it: the step adds no relationships part of a part, and a
\* Close of an open writer without package relationships and core properties
\* succeeds.
C21_AdvanceRunsOncePerPart ==
  [][ (called({ "Create", "CreatePart", "Close" }) /\ lastSidecarEmitted) =>
        /\ \A k \in 1..Len(newEntries) : ~isSidecar(newEntries[k])
        /\ ( /\ called({ "Close" })
             /\ ~w.closed
             /\ w.Relationships = << >>
             /\ w.Properties = NoProperties ) => ret'.err = 0 ]_vars

\* The name of the core-properties part of the writer.
corePropertiesPartName(x) ==
  IF x.Properties.PartName = << >> THEN corePropsDefaultName ELSE x.Properties.PartName

\* The kinds and names of the entries Close is to generate for the writer.
expectedAtClose(x) ==
  (IF x.last # Nil /\ x.last[1].Relationships # << >>
   THEN << << "rels", zipName(relationshipsPartName(x.last[1].Name)) >> >> ELSE << >>)
  \o (IF x.Properties # NoProperties
      THEN << << "props", zipName(corePropertiesPartName(x)) >> >> ELSE << >>)
  \o (IF x.Properties # NoProperties \/ x.Relationships # << >>
      THEN << << "rels", zipName(packageRelName) >> >> ELSE << >>)
  \o << << "types", zipName(contentTypesName) >> >>

\* C22: a successful Close adds to the archive, in this order, the
\* relationships part of the last part (when it has relationships), the
\* core-properties part (when core properties are set), /_rels/.rels (when
\* the package has a relationship, that of the core properties included) and
\* [Content_Types].xml, and nothing else; when core properties are set,
\* /_rels/.rels holds the relationship to the core-properties part; the
\* content types written declare a type for each of the generated parts.
C22_CloseEmissionOrder ==
  [][ (called({ "Close" }) /\ ret'.err = 0) =>
        /\ [ k \in 1..Len(newEntries) |-> << newEntries[k].kind, newEntries[k].name >> ]
             = expectedAtClose(w)
        /\ w.Properties # NoProperties =>
             \E k \in 1..Len(newEntries) :
               /\ newEntries[k].name = zipName(packageRelName)
               /\ \E j \in 1..Len(newEntries[k].body) :
                    /\ newEntries[k].body[j].Type = corePropsRel
                    /\ newEntries[k].body[j].Target = corePropertiesPartName(w)
        /\ \A k \in 1..(Len(newEntries) - 1) :
             ~undeclared(newEntries[Len(newEntries)].body[1], entryName(newEntries[k])) ]_vars

\* Close succeeded on a writer with core properties whose last part has
\* relationships: the four generated entries were written.
C22_Witness ==
  /\ closedSuccessfully
  /\ w.Properties # NoProperties
  /\ Len(w.zip) >= 5
  /\ isSidecar(w.zip[Len(w.zip) - 3])
  /\ w.zip[Len(w.zip) - 2].kind = "props"
  /\ w.zip[Len(w.zip) - 1].name = zipName(packageRelName)
  /\ w.zip[Len(w.zip)].kind = "types"

\* A part the caller created occupies the name in the package.
occupied(name) ==
  \E i \in 1..Len(calls) : upperName(calls[i]) = ToUpper(NormalizePartName(name))

\* The names of the parts the step is to generate: the relationships part of
\* the last part, and for Close the core-properties part and /_rels/.rels.
generatedNames ==
  { << "/" >> \o expectedAtClose(w)[k][2] :
      k \in { j \in 1..(Len(expectedAtClose(w)) - 1) :
                called({ "Close" }) \/ isSidecar([ kind |-> expectedAtClose(w)[j][1],
                                                   name |-> expectedAtClose(w)[j][2] ]) } }

\* C23: when the name of a part a Create, CreatePart or Close is to generate
\* (the relationships part of the last part, the core-properties part,
\* /_rels/.rels) is, without regard to case, the name of a part the caller
\* created before, the call returns an error and adds no entry with that
\* name to the archive.
C23_GeneratedNamesAreUnique ==
  [][ called({ "Create", "CreatePart", "Close" }) =>
        \A name \in generatedNames :
          occupied(name) =>
            /\ ret'.err # 0
            /\ \A k \in 1..Len(newEntries) :
                 ~EqualFold(entryName(newEntries[k]), name) ]_vars

\* Close failed with 112 on a writer with core properties whose caller had
\* created a part named as the core-properties part; the archive holds one
\* entry of that name.
C23_Witness ==
  /\ ret = [ op |-> "Close", err |-> 112 ]
  /\ w.Properties # NoProperties
  /\ \E i \in 1..Len(calls) : calls[i].Name = corePropsDefaultName
  /\ Cardinality({ k \in 1..Len(w.zip) : entryName(w.zip[k]) = corePropsDefaultName }) = 1

\* C24: a CreatePart that fails because the archive does not open the entry
\* leaves the package as it was before the call: the part is not among the
\* parts, the content types hold no Default and no Override of the part, and
\* the last part of the writer is the one it was. (Stated for calls that
\* have no relationships part of an earlier part to write.)
C24_FailedEntryIsReverted ==
  [][ ( /\ called({ "CreatePart" })
        /\ ret'.err = ErrCannotBeCreated
        /\ lastRels(w) = << >> ) =>
        /\ w'.p.parts = w.p.parts
        /\ w'.p.contentTypes = w.p.contentTypes
        /\ w'.last = w.last ]_vars

\* The elements of the /_rels/.rels the step wrote that have the
\* core-properties type.
coreElements ==
  UNION { { newEntries[k].body[j] :
              j \in { i \in 1..Len(newEntries[k].body) :
                        newEntries[k].body[i].Type = corePropsRel } } :
          k \in { i \in 1..Len(newEntries) : newEntries[i].name = zipName(packageRelName) } }

\* C25: a successful Close of a writer with core properties writes the
\* core-properties part under the PartName of the caller (/props/core.xml
\* when it is empty), and the relationship of the package that points to it
\* has the RelationshipID of the caller when that is not empty.
C25_CorePropertiesNameAndID ==
  [][ (called({ "Close" }) /\ ret'.err = 0 /\ w.Properties # NoProperties) =>
        /\ \E k \in 1..Len(newEntries) :
             /\ newEntries[k].kind = "props"
             /\ entryName(newEntries[k]) = corePropertiesPartName(w)
        /\ \E x \in coreElements :
             /\ x.Target = corePropertiesPartName(w)
             /\ w.Properties.RelationshipID # << >> => x.Id = w.Properties.RelationshipID ]_vars

\* C26: a relationship without ID gets a generated ID and is not rejected.
\* (a) No CreatePart is rejected with 126 for the relationships of its part:
\* the parts callers give have no two relationships with the same ID and no
\* blank ID other than the empty one, so that a call with no relationships
\* part of an earlier part to write never fails with 126. (b) Every element
\* of a relationships part written for a part has a non-empty ID.
C26_EmptyIDIsGenerated ==
  [][ /\ (called({ "CreatePart" }) /\ lastRels(w) = << >>) => ret'.err # 126
      /\ sidecarWritten =>
           \A k \in 1..Len(w'.zip[Len(w.zip) + 1].body) :
             w'.zip[Len(w.zip) + 1].body[k].Id # << >> ]_vars

\* The text is an xsd:ID (an NCName) of ASCII characters: a letter or "_"
\* followed by letters, digits, ".", "-" and "_".
isXsdID(s) ==
  /\ s # << >>
  /\ isAlpha(s[1]) \/ s[1] = "_"
  /\ \A i \in 1..Len(s) : isAlpha(s[i]) \/ isDigit(s[i]) \/ s[i] \in { ".", "-", "_" }

\* C27: every generated ID has 8 characters, all of them letters or digits,
\* and is an xsd:ID: its first character is not a digit.
C27_GeneratedIDIsXsdID ==
  (ret.op = "ensureID" /\ ret.before.ID = << >>) =>
    /\ Len(ret.r.ID) = 8
    /\ \A i \in 1..Len(ret.r.ID) : isAlpha(ret.r.ID[i]) \/ isDigit(ret.r.ID[i])
    /\ isXsdID(ret.r.ID)

\* The entries of the archive that are parts, in archive order.
partEntries(files) == SelectSeq(files, LAMBDA e : isPartEntry(files, e))

\* The relationships the relationships part of the part holds, none when
\* the archive has no such entry.
sidecarRelationships(files, name) ==
  LET own == { j \in 1..Len(files) :
                 /\ isRelsEntry(files[j])
                 /\ EqualFold(entryName(files[j]), relationshipsPartName(name)) }
  IN  IF own = {} THEN << >>
      ELSE decodeRelationships(files[CHOOSE j \in own : \A k \in own : k <= j].body)

\* C28: after a successful load the Files of the Reader are, one for one and
\* in archive order, the entries that are neither a directory, nor the
\* content-types stream, nor a relationships part, nor the core-properties
\* part; each File carries the relationships its own relationships part
\* holds, wherever that entry stands in the archive.
C28_FilesAndTheirRelationships ==
  (ret.op = "newReader" /\ ret.err = 0) =>
    /\ rd # Nil
    /\ Len(rd[1].Files) = Len(partEntries(ret.files))
    /\ \A i \in 1..Len(rd[1].Files) :
         /\ rd[1].Files[i].Name = entryName(partEntries(ret.files)[i])
         /\ rd[1].Files[i].Relationships
              = sidecarRelationships(ret.files, rd[1].Files[i].Name)

\* A load succeeded on an archive whose first entry is the relationships
\* part of the part that follows it: the File has its relationship.
C28_Witness ==
  /\ ret.op = "newReader" /\ ret.err = 0
  /\ Len(ret.files) = MaxEntries
  /\ isRelsEntry(ret.files[1])
  /\ isTypesEntry(ret.files[MaxEntries])
  /\ Len(rd[1].Files) = 1
  /\ Len(rd[1].Files[1].Relationships) = 1


\* C29: encoding the content types of one dictionary twice gives the same
\* document both times, its Default and Override elements in the same order.
C29_EncodingIsDeterministic ==
  [][ (ret.op = "encodeContentTypes" /\ ret'.op = "encodeContentTypes")
        => ret'.Types = ret.Types ]_vars

\* The positions, in the /_rels/.rels the step wrote, of the relationships of
\* the core-properties type.
corePositions ==
  { kj \in UNION { { << k, j >> : j \in 1..Len(newEntries[k].body) } :
                   k \in { i \in 1..Len(newEntries) :
                             newEntries[i].name = zipName(packageRelName) } } :
      newEntries[kj[1]].body[kj[2]].Type = corePropsRel }

\* C30: the /_rels/.rels a successful Close of a writer with core properties
\* writes has exactly one relationship of the core-properties type, and its
\* target is the core-properties part, also when the relationships of the
\* writer held one of that type before the Close.
C30_OneCorePropertiesRelationship ==
  [][ (called({ "Close" }) /\ ret'.err = 0 /\ w.Properties # NoProperties) =>
        /\ Cardinality(corePositions) = 1
        /\ \A kj \in corePositions :
             newEntries[kj[1]].body[kj[2]].Target = corePropertiesPartName(w) ]_vars

====
